---------------------------- MODULE Spec2Model ----------------------------
(***************************************************************************)
(* Model of the solo5e combat engine: the life/death state machine         *)
(* (engine/src/life.rs), the condition system (engine/src/conditions.rs)   *)
(* the duel orchestrator simulate_duel and the encounter orchestrators     *)
(* simulate_encounter (engine/src/api.rs) and the encounter command        *)
(* (cli/src/main.rs).                                                      *)
(*                                                                         *)
(* Seven specifications share the variables:                               *)
(*   Spec      a caller that drives the public functions of life.rs on     *)
(*             one combatant, in any order, with any                       *)
(*             argument of the bounded domains;                            *)
(*   SpecDuel  simulate_duel on a configuration drawn from DuelConfigs,    *)
(*             one action per library call of the round loop;              *)
(*   SpecEncounter  an encounter against several enemies, by the engine    *)
(*             or by the command, on a configuration of EncounterConfigs;  *)
(*   SpecCond  a caller that drives the public functions of                *)
(*             conditions.rs on one condition list;                        *)
(*   SpecMany  simulate_duel_many, every sample a duel of SpecDuel after   *)
(*             the set-up that reads its content;                          *)
(*   SpecContest  a caller of the grapple and shove actions                *)
(*             (engine/src/combat/actions.rs) on one defender;             *)
(*   SpecRules  a caller of the pure rules: attack, damage,                *)
(*             Vantage::combine and vantage_from_conditions.               *)
(***************************************************************************)
EXTENDS Integers, Sequences, FiniteSets, TLC

VARIABLES
    actor_health,      \* Health of the combatant / of the actor
    actor_conditions,  \* Vec<ActiveCondition> of the combatant / actor
    enemy_hp,          \* simulate_duel: enemy_hp
    enemy_conditions,  \* simulate_duel: enemy_conditions
    rounds,            \* simulate_duel: rounds
    actor_turn,        \* simulate_duel: actor_turn
    pc,                \* position in simulate_duel ("api" under Spec)
    cfg,               \* the configuration a run was started with
    winner,            \* simulate_duel: winner ("" until decided)
    call,              \* the last library call: arguments, pre-state, result
    enemies,           \* encounter: Vec<EnemyState> (hp and conditions)
    initiative,        \* encounter: the order in which a round takes turns
    entry,             \* encounter: position of the round in that order
    auto_potion_left,  \* encounter command: auto_potion_left
    batch              \* simulate_duel_many: its locals and its result

vars == <<actor_health, actor_conditions, enemy_hp, enemy_conditions,
          rounds, actor_turn, pc, cfg, winner, call, enemies, initiative,
          entry, auto_potion_left, batch>>

EncounterVars == <<enemies, initiative, entry, auto_potion_left>>

\* The encounter variables outside an encounter.
NoEncounter ==
    /\ enemies = <<>>
    /\ initiative = <<>>
    /\ entry = 0
    /\ auto_potion_left = FALSE

\* The batch variable outside simulate_duel_many.
NoBatch == batch = [op |-> "none"]

(***************************************************************************)
(* Bounds of the model.                                                    *)
(***************************************************************************)
MaxHP == 3
MaxDmg == 4
MaxHeal == 2

Max(a, b) == IF a >= b THEN a ELSE b
Min(a, b) == IF a <= b THEN a ELSE b

D20 == 1..20

(***************************************************************************)
(* life.rs: LifeState, DeathSaves, Health.                                 *)
(***************************************************************************)
Conscious == [tag |-> "Conscious"]
Unconscious(stable) == [tag |-> "Unconscious", stable |-> stable]
Dead == [tag |-> "Dead"]

IsUnconscious(state) == state.tag = "Unconscious"

DeathSavesDefault == [successes |-> 0, failures |-> 0]

HealthNew(max_hp) ==
    [hp |-> max_hp, max_hp |-> max_hp, state |-> Conscious,
     death |-> DeathSavesDefault]

(***************************************************************************)
(* conditions.rs: ConditionKind, ActiveCondition, ConditionSpec.           *)
(* An Option is modelled by the value itself or, when absent, by None (a   *)
(* record-valued option) or the string "None" (a name-valued option).      *)
(***************************************************************************)
None == [tag |-> "None"]

ConditionKind == {"Poisoned", "Prone", "Restrained"}

make_active_condition(kind) ==
    [kind |-> kind, save_ends_each_turn |-> FALSE, end_phase |-> "None",
     end_save |-> None, pending_one_turn |-> FALSE]

from_spec_for_application(spec) ==
    [kind |-> spec.kind,
     save_ends_each_turn |-> spec.duration.save_ends_each_turn,
     end_phase |-> spec.duration.until,
     end_save |-> spec.save,
     pending_one_turn |-> (spec.duration.until # "None")]

HasKind(conds, kind) == \E i \in 1..Len(conds) : conds[i].kind = kind

CountKind(conds, kind) ==
    Cardinality({i \in 1..Len(conds) : conds[i].kind = kind})

(***************************************************************************)
(* life.rs apply_damage.  The result carries the new Health, the new       *)
(* condition list, the returned flag and the number of log messages.       *)
(***************************************************************************)
\* apply_damage without its guard on Dead.
ApplyDamageNoDeadGuard(health, conditions, dmg) ==
    LET before == health.hp
        hp1    == Max(health.hp - dmg, 0)
    IN  IF before > 0 /\ hp1 = 0
        THEN [health |-> [health EXCEPT !.hp = hp1,
                                        !.state = Unconscious(FALSE)],
              conditions |-> IF HasKind(conditions, "Prone")
                             THEN conditions
                             ELSE Append(conditions,
                                         make_active_condition("Prone")),
              ret |-> TRUE,
              logs |-> IF HasKind(conditions, "Prone") THEN 2 ELSE 3]
        ELSE [health |-> [health EXCEPT !.hp = hp1],
              conditions |-> conditions, ret |-> FALSE, logs |-> 1]

apply_damage(health, conditions, dmg) ==
    IF health.state = Dead
    THEN [health |-> health, conditions |-> conditions,
          ret |-> FALSE, logs |-> 0]
    ELSE LET before == health.hp
             hp1    == Max(health.hp - dmg, 0)
         IN  IF before > 0 /\ hp1 = 0
             THEN [health |-> [health EXCEPT !.hp = hp1,
                                             !.state = Unconscious(FALSE)],
                   conditions |-> IF HasKind(conditions, "Prone")
                                  THEN conditions
                                  ELSE Append(conditions,
                                              make_active_condition("Prone")),
                   ret |-> TRUE,
                   logs |-> IF HasKind(conditions, "Prone") THEN 2 ELSE 3]
             ELSE [health |-> [health EXCEPT !.hp = hp1],
                   conditions |-> conditions, ret |-> FALSE, logs |-> 1]

(***************************************************************************)
(* life.rs heal.                                                           *)
(***************************************************************************)
\* heal that wakes whoever is not Conscious, the Dead included.
HealRevivesDead(health, amount) ==
    IF amount <= 0
    THEN [health |-> health, logs |-> 0]
    ELSE LET was_uncon == health.state # Conscious
             hp1       == Min(health.hp + amount, health.max_hp)
         IN  IF was_uncon /\ hp1 > 0
             THEN [health |-> [health EXCEPT !.hp = hp1,
                                             !.state = Conscious,
                                             !.death = DeathSavesDefault],
                   logs |-> 1]
             ELSE [health |-> [health EXCEPT !.hp = hp1], logs |-> 1]

\* heal that wakes the combatant but keeps its death-save tally.
HealKeepsTally(health, amount) ==
    IF amount <= 0
    THEN [health |-> health, logs |-> 0]
    ELSE LET was_uncon == IsUnconscious(health.state)
             hp1       == Min(health.hp + amount, health.max_hp)
         IN  IF was_uncon /\ hp1 > 0
             THEN [health |-> [health EXCEPT !.hp = hp1,
                                             !.state = Conscious],
                   logs |-> 1]
             ELSE [health |-> [health EXCEPT !.hp = hp1], logs |-> 1]

heal(health, amount) ==
    IF amount <= 0
    THEN [health |-> health, logs |-> 0]
    ELSE LET was_uncon == IsUnconscious(health.state)
             hp1       == Min(health.hp + amount, health.max_hp)
         IN  IF was_uncon /\ hp1 > 0
             THEN [health |-> [health EXCEPT !.hp = hp1,
                                             !.state = Conscious,
                                             !.death = DeathSavesDefault],
                   logs |-> 1]
             ELSE [health |-> [health EXCEPT !.hp = hp1], logs |-> 1]

(***************************************************************************)
(* life.rs stabilize.                                                      *)
(***************************************************************************)
\* stabilize that also clears the death-save tally.
StabilizeClearsTally(health) ==
    IF IsUnconscious(health.state)
    THEN [health |-> [health EXCEPT !.state = Unconscious(TRUE),
                                    !.death = DeathSavesDefault],
          logs |-> 1]
    ELSE [health |-> health, logs |-> 0]

stabilize(health) ==
    IF IsUnconscious(health.state)
    THEN [health |-> [health EXCEPT !.state = Unconscious(TRUE)], logs |-> 1]
    ELSE [health |-> health, logs |-> 0]

(***************************************************************************)
(* life.rs process_death_save_start_of_turn.  d20 is the value the d20     *)
(* closure yields if it is called; draws counts the calls made.            *)
(***************************************************************************)
\* The death-save guard without the test of the stable flag.
QualifiesIgnoringStable(health) ==
    /\ IsUnconscious(health.state)
    /\ health.hp = 0

Qualifies(health) ==
    /\ IsUnconscious(health.state)
    /\ ~health.state.stable
    /\ health.hp = 0

\* The tally with the success threshold off by one (roll > 10).
TallyOffByOne(health, roll) ==
    IF roll = 20
    THEN [health EXCEPT !.death = DeathSavesDefault, !.hp = 1,
                        !.state = Conscious]
    ELSE IF roll = 1
    THEN [health EXCEPT !.death.failures = Min(health.death.failures + 2, 3)]
    ELSE IF roll > 10
    THEN [health EXCEPT !.death.successes = Min(health.death.successes + 1, 3)]
    ELSE [health EXCEPT !.death.failures = Min(health.death.failures + 1, 3)]

\* The tally with a natural 20 that wakes the combatant but keeps the
\* counters.
TallyKeptOnNat20(health, roll) ==
    IF roll = 20
    THEN [health EXCEPT !.hp = 1, !.state = Conscious]
    ELSE IF roll = 1
    THEN [health EXCEPT !.death.failures = Min(health.death.failures + 2, 3)]
    ELSE IF roll >= 10
    THEN [health EXCEPT !.death.successes = Min(health.death.successes + 1, 3)]
    ELSE [health EXCEPT !.death.failures = Min(health.death.failures + 1, 3)]

Tally(health, roll) ==
    IF roll = 20
    THEN [health EXCEPT !.death = DeathSavesDefault, !.hp = 1,
                        !.state = Conscious]
    ELSE IF roll = 1
    THEN [health EXCEPT !.death.failures = Min(health.death.failures + 2, 3)]
    ELSE IF roll >= 10
    THEN [health EXCEPT !.death.successes = Min(health.death.successes + 1, 3)]
    ELSE [health EXCEPT !.death.failures = Min(health.death.failures + 1, 3)]

\* The resolution without the step to stable at three successes.
ResolveFailuresOnly(health) ==
    IF health.death.failures >= 3
    THEN [health EXCEPT !.state = Dead]
    ELSE health

Resolve(health) ==
    IF health.death.failures >= 3
    THEN [health EXCEPT !.state = Dead]
    ELSE IF health.death.successes >= 3
    THEN [health EXCEPT !.state = Unconscious(TRUE)]
    ELSE health

process_death_save_start_of_turn(health, d20) ==
    IF Qualifies(health)
    THEN [health |-> Resolve(Tally(health, d20)), ret |-> "Some",
          draws |-> 1, logs |-> 1]
    ELSE [health |-> health, ret |-> "None", draws |-> 0, logs |-> 0]


(***************************************************************************)
(* lib.rs: ability_mod, Actor::save_mod; api.rs: sample_fighter.           *)
(***************************************************************************)
Ability == {"Str", "Dex", "Con", "Int", "Wis", "Cha"}

ability_mod(score) == (score - 10) \div 2

sample_fighter ==
    [abilities |-> [Str |-> 16, Dex |-> 14, Con |-> 14,
                    Int |-> 10, Wis |-> 12, Cha |-> 8],
     proficiency_bonus |-> 2,
     save_proficiencies |-> {"Str", "Con"}]

save_mod(actor, a) ==
    ability_mod(actor.abilities[a])
        + (IF a \in actor.save_proficiencies THEN actor.proficiency_bonus ELSE 0)

ActorSaveMods == [a \in Ability |-> save_mod(sample_fighter, a)]

(***************************************************************************)
(* conditions.rs maybe_apply_on_hit_condition.  roll is the d20 the        *)
(* saving_throw_fn closure draws if it is called; mods gives the target's  *)
(* save modifier per ability (total = roll + mods[ability]).  log is the   *)
(* sequence of messages passed to the log closure, in order.               *)
(***************************************************************************)
\* A saving throw that succeeds only when the total exceeds the DC.
SaveEventStrict(kind, save, roll, mods) ==
    [ev |-> "SAVE", kind |-> kind, ability |-> save.ability, dc |-> save.dc,
     roll |-> roll, total |-> roll + mods[save.ability],
     success |-> roll + mods[save.ability] > save.dc]

SaveEvent(kind, save, roll, mods) ==
    [ev |-> "SAVE", kind |-> kind, ability |-> save.ability, dc |-> save.dc,
     roll |-> roll, total |-> roll + mods[save.ability],
     success |-> roll + mods[save.ability] >= save.dc]

CondEvent(ev, kind) == [ev |-> ev, kind |-> kind]

\* On-hit application that applies the condition when the save succeeds.
MaybeApplyInverted(target_conditions, spec, roll, mods) ==
    LET active == from_spec_for_application(spec)
        gains  == CondEvent("gains", spec.kind)
    IN  IF spec.save # None
        THEN LET saved == SaveEvent(spec.kind, spec.save, roll, mods)
             IN  IF ~saved.success
                 THEN [conditions |-> target_conditions, draws |-> 1,
                       logs |-> 1, log |-> <<saved>>]
                 ELSE [conditions |-> Append(target_conditions, active),
                       draws |-> 1, logs |-> 2, log |-> <<saved, gains>>]
        ELSE [conditions |-> Append(target_conditions, active), draws |-> 0,
              logs |-> 1, log |-> <<gains>>]

maybe_apply_on_hit_condition(target_conditions, spec, roll, mods) ==
    LET active == from_spec_for_application(spec)
        gains  == CondEvent("gains", spec.kind)
    IN  IF spec.save # None
        THEN LET saved == SaveEvent(spec.kind, spec.save, roll, mods)
             IN  IF saved.success
                 THEN [conditions |-> target_conditions, draws |-> 1,
                       logs |-> 1, log |-> <<saved>>]
                 ELSE [conditions |-> Append(target_conditions, active),
                       draws |-> 1, logs |-> 2, log |-> <<saved, gains>>]
        ELSE [conditions |-> Append(target_conditions, active), draws |-> 0,
              logs |-> 1, log |-> <<gains>>]

(***************************************************************************)
(* conditions.rs process_turn_boundary.  rolls[k] is the d20 drawn by the  *)
(* k-th call of saving_throw_fn.  The conditions to remove are collected   *)
(* by index and removed from the highest index down, one message each.     *)
(***************************************************************************)
DropIndices(s, S) ==
    LET keep == {i \in 1..Len(s) : i \notin S}
        Kth(k) == CHOOSE i \in keep : Cardinality({j \in keep : j <= i}) = k
    IN  [k \in 1..Cardinality(keep) |-> s[Kth(k)]]

NeedsSave(c) == c.save_ends_each_turn /\ c.end_save # None

\* Saving throws at every boundary, not only at EndOfTurn.
SaveIndicesAnyBoundary(boundary, conds) ==
    {i \in 1..Len(conds) : NeedsSave(conds[i])}

SaveIndices(boundary, conds) ==
    IF boundary = "EndOfTurn"
    THEN {i \in 1..Len(conds) : NeedsSave(conds[i])}
    ELSE {}

\* One-turn expiry at any boundary, whatever the end phase.
ExpiresAnyPhase(c, boundary) == c.pending_one_turn

Expires(c, boundary) == c.pending_one_turn /\ c.end_phase = boundary

\* The indices of S in increasing (up = TRUE) or decreasing order.
IndexSeq(S, up) ==
    LET Kth(k) == CHOOSE i \in S :
                     Cardinality({j \in S : IF up THEN j <= i ELSE j >= i}) = k
    IN  [k \in 1..Cardinality(S) |-> Kth(k)]

process_turn_boundary(boundary, actor_conds, rolls, mods) ==
    LET saving   == SaveIndices(boundary, actor_conds)
        order    == IndexSeq(saving, TRUE)
        saves    == [k \in 1..Len(order) |->
                       SaveEvent(actor_conds[order[k]].kind,
                                 actor_conds[order[k]].end_save,
                                 rolls[k], mods)]
        saved    == {order[k] : k \in {j \in 1..Len(order) : saves[j].success}}
        rm1      == IndexSeq(saved, FALSE)
        after    == DropIndices(actor_conds, saved)
        expired  == {i \in 1..Len(after) : Expires(after[i], boundary)}
        rm2      == IndexSeq(expired, FALSE)
    IN  [conditions |-> DropIndices(after, expired),
         draws |-> Cardinality(saving),
         logs |-> Cardinality(saving) + Cardinality(saved)
                    + Cardinality(expired),
         log |-> saves
                   \o [k \in 1..Len(rm1) |->
                         CondEvent("no_longer", actor_conds[rm1[k]].kind)]
                   \o [k \in 1..Len(rm2) |->
                         CondEvent("ends", after[rm2[k]].kind)]]

(***************************************************************************)
(* The record of the last library call: its explicit argument (arg), the   *)
(* Health and condition list it was called on (pre, preConds), what it     *)
(* returned, and how many log messages and d20 draws it made.  Under Spec  *)
(* the caller supplies the d20 closure of a death save, and arg is the     *)
(* value the closure yields; under SpecDuel the closure draws from the     *)
(* dice stream and arg is 0.  who is the combatant the call acts on: for   *)
(* an attack roll (op "attack", ret = AttackResult.hit) the one attacked.  *)
(* round is the value of the round counter when the call was made.  The    *)
(* initiative rolls of simulate_duel are recorded as op "initiative" with  *)
(* arg = <<actor_init, enemy_init>>.                                       *)
(***************************************************************************)
NoCall ==
    [op |-> "none", who |-> "none", arg |-> 0, ret |-> "unit",
     pre |-> HealthNew(0), preConds |-> <<>>, logs |-> 0, draws |-> 0,
     round |-> 0]

Called(op, arg, ret, logs, draws) ==
    [op |-> op, who |-> "actor", arg |-> arg, ret |-> ret,
     pre |-> actor_health, preConds |-> actor_conditions, logs |-> logs,
     draws |-> draws, round |-> rounds]

CalledOnEnemy(op, arg, ret, logs, draws) ==
    [op |-> op, who |-> "enemy", arg |-> arg, ret |-> ret,
     pre |-> actor_health, preConds |-> enemy_conditions, logs |-> logs,
     draws |-> draws, round |-> rounds]

(***************************************************************************)
(* Spec: a caller of life.rs on one combatant.                             *)
(***************************************************************************)
Init ==
    /\ \E max_hp \in (0 - 1)..MaxHP :
          /\ actor_health = HealthNew(max_hp)
          /\ cfg = [actor_hp |-> max_hp]
    /\ actor_conditions \in {<<>>, <<make_active_condition("Prone")>>,
                            <<make_active_condition("Poisoned")>>}
    /\ enemy_hp = 0
    /\ enemy_conditions = <<>>
    /\ rounds = 0
    /\ actor_turn = FALSE
    /\ pc = "api"
    /\ winner = ""
    /\ call = NoCall
    /\ NoEncounter
    /\ NoBatch

DuelUnchanged ==
    UNCHANGED <<enemy_hp, enemy_conditions, rounds, actor_turn, pc, cfg, EncounterVars,
                   batch,
                winner>>

ApplyDamageCall ==
    /\ pc = "api"
    /\ \E dmg \in (0 - 1)..MaxDmg :
          LET r == apply_damage(actor_health, actor_conditions, dmg)
          IN  /\ actor_health.hp - dmg <= MaxHP + 1
              /\ actor_health' = r.health
              /\ actor_conditions' = r.conditions
              /\ call' = Called("apply_damage", dmg, r.ret, r.logs, 0)
    /\ DuelUnchanged

HealCall ==
    /\ pc = "api"
    /\ \E amount \in (0 - 1)..MaxHeal :
          LET r == heal(actor_health, amount)
          IN  /\ actor_health' = r.health
              /\ call' = Called("heal", amount, "unit", r.logs, 0)
    /\ UNCHANGED actor_conditions
    /\ DuelUnchanged

StabilizeCall ==
    /\ pc = "api"
    /\ LET r == stabilize(actor_health)
       IN  /\ actor_health' = r.health
           /\ call' = Called("stabilize", 0, "unit", r.logs, 0)
    /\ UNCHANGED actor_conditions
    /\ DuelUnchanged

DeathSaveCall ==
    /\ pc = "api"
    /\ \E d20 \in D20 :
          LET r == process_death_save_start_of_turn(actor_health, d20)
          IN  /\ actor_health' = r.health
              /\ call' = Called("death_save", IF r.draws = 1 THEN d20 ELSE 0,
                                r.ret, r.logs, r.draws)
    /\ UNCHANGED actor_conditions
    /\ DuelUnchanged

Next ==
    \/ ApplyDamageCall
    \/ HealCall
    \/ StabilizeCall
    \/ DeathSaveCall

Spec == Init /\ [][Next]_vars


(***************************************************************************)
(* lib.rs: Dice::d20, attack, DamageDice::roll_total, damage,              *)
(* adjust_damage_by_type.  A draw of the dice stream is a nondeterministic *)
(* choice; the operators take the drawn values as arguments.               *)
(***************************************************************************)
\* A d20 that keeps the first die drawn whatever the mode.
D20KeepsFirst(mode, a, b) == a

d20(mode, a, b) ==
    IF mode = "Normal" THEN a
    ELSE IF mode = "Advantage" THEN Max(a, b)
    ELSE Min(a, b)

\* The values d20(mode) can return: one draw under Normal, the higher or
\* the lower of two draws otherwise.
D20Kept(mode) ==
    IF mode = "Normal" THEN D20
    ELSE {d20(mode, a, b) : a \in D20, b \in D20}

attack(r, bonus, ac) ==
    LET nat20 == r = 20
        nat1  == r = 1
        total == r + bonus
    IN  [roll |-> r, total |-> total, ac |-> ac, bonus |-> bonus,
         nat20 |-> nat20, nat1 |-> nat1,
         hit |-> IF nat20 THEN TRUE ELSE IF nat1 THEN FALSE ELSE total >= ac]

\* The sums of n dice of 1..sides; the loop of roll_total is split in two
\* halves so that 255 dice stay within the evaluator's stack.
RECURSIVE SumsOf(_, _)
SumsOf(n, sides) ==
    IF n <= 0 THEN {0}
    ELSE IF n = 1 THEN 1..sides
    ELSE {x + y : x \in SumsOf(n \div 2, sides),
                  y \in SumsOf(n - (n \div 2), sides)}

\* The number of dice roll_total draws: count, doubled on a crit by a u8
\* saturating_mul, which stops at 255.
roll_total_n(dice, crit) ==
    IF crit THEN Min(dice.count * 2, 255) ELSE dice.count

\* The totals roll_total can return: roll_total_n dice of 1..sides, summed.
roll_total(dice, crit) == SumsOf(roll_total_n(dice, crit), dice.sides)

damage(rolled, modifier) == rolled + modifier

adjust_damage_by_type(base, dtype, resist, vuln, immune) ==
    IF dtype \in immune THEN 0
    ELSE LET has_res  == dtype \in resist
             has_vuln == dtype \in vuln
         IN  IF has_res /\ has_vuln THEN base
             ELSE IF has_res THEN base \div 2
             ELSE IF has_vuln THEN base * 2
             ELSE base

attack_bonus(actor, ability, proficient) ==
    ability_mod(actor.abilities[ability])
        + (IF proficient THEN actor.proficiency_bonus ELSE 0)

damage_mod(actor, ability) == ability_mod(actor.abilities[ability])

(***************************************************************************)
(* conditions.rs: Vantage::combine, vantage_from_conditions.               *)
(***************************************************************************)
\* A combination in which the first polarity wins.
CombineFirstWins(self, other) == IF self = "Normal" THEN other ELSE self

combine(self, other) ==
    IF \/ (self = "Disadvantage" /\ other = "Advantage")
       \/ (self = "Advantage" /\ other = "Disadvantage")
    THEN "Normal"
    ELSE IF self = "Normal" THEN other
    ELSE IF other = "Normal" THEN self
    ELSE self

RECURSIVE TargetVantage(_, _, _, _)
TargetVantage(net, target_conds, i, style) ==
    IF i > Len(target_conds) THEN net
    ELSE LET c == target_conds[i]
             net1 == IF c.kind = "Restrained" THEN combine(net, "Advantage")
                     ELSE IF c.kind = "Prone"
                     THEN (IF style = "Melee" THEN combine(net, "Advantage")
                           ELSE combine(net, "Disadvantage"))
                     ELSE net
         IN  TargetVantage(net1, target_conds, i + 1, style)

\* A vantage that looks at the target's conditions only.
VantageIgnoresAttacker(attacker_conds, target_conds, style) ==
    TargetVantage("Normal", target_conds, 1, style)

vantage_from_conditions(attacker_conds, target_conds, style) ==
    LET net0 == IF \E i \in 1..Len(attacker_conds) :
                      attacker_conds[i].kind \in {"Poisoned", "Restrained"}
                THEN combine("Normal", "Disadvantage")
                ELSE "Normal"
    IN  TargetVantage(net0, target_conds, 1, style)

(***************************************************************************)
(* api.rs: constants, configuration and helpers of simulate_duel.          *)
(***************************************************************************)
DEFAULT_ACTOR_AC == 16
\* A round cap that lets one more round through.
RoundCapOffByOne == 30 + 1

MAX_ROUNDS == 30

\* parse_condition_list: the known names become permanent conditions, the
\* others are dropped.
RECURSIVE parse_condition_list(_)
parse_condition_list(src) ==
    IF src = <<>> THEN <<>>
    ELSE LET kind == IF Head(src) = "poisoned" THEN "Poisoned"
                     ELSE IF Head(src) = "prone" THEN "Prone"
                     ELSE IF Head(src) = "restrained" THEN "Restrained"
                     ELSE "None"
             rest == parse_condition_list(Tail(src))
         IN  IF kind = "None" THEN rest
             ELSE <<make_active_condition(kind)>> \o rest

\* TargetData::ability_mod of a target without an abilities block.
TargetAbilityMods(target) ==
    [a \in Ability |-> IF a = "Dex" THEN target.dex_mod ELSE 0]

NoDuration == [until |-> "None", save_ends_each_turn |-> FALSE]

PoisonOnHit ==
    [kind |-> "Poisoned", save |-> [ability |-> "Con", dc |-> 12],
     duration |-> NoDuration]

ProneOnHit == [kind |-> "Prone", save |-> None, duration |-> NoDuration]

RestrainOnHit ==
    [kind |-> "Restrained", save |-> [ability |-> "Str", dc |-> 0],
     duration |-> [until |-> "None", save_ends_each_turn |-> TRUE]]

Longsword ==
    [name |-> "longsword", dice |-> [count |-> 1, sides |-> 8],
     finesse |-> FALSE, ranged |-> FALSE,
     versatile |-> [count |-> 1, sides |-> 10], damage_type |-> "None"]

Goblin ==
    [name |-> "goblin", ac |-> 13, hp |-> 4, dex_mod |-> 2,
     attack |-> [to_hit |-> 4, dice |-> [count |-> 1, sides |-> 2],
                 ranged |-> FALSE, apply_condition |-> PoisonOnHit],
     resistances |-> {}, vulnerabilities |-> {}, immunities |-> {},
     conditions |-> <<>>, cover |-> 0]

\* The configurations simulate_duel is run on.
DuelConfigs ==
    { \* a goblin whose bite poisons (resisted by a DC 12 Con save)
      [actor_hp |-> 3, target |-> Goblin, weapon |-> Longsword,
       actor_conditions |-> <<>>, enemy_conditions |-> <<>>],
      \* every hit knocks prone, no save; the target cannot be hurt
      [actor_hp |-> 3,
       target |-> [Goblin EXCEPT !.attack.apply_condition = ProneOnHit,
                                 !.immunities = {"Slashing"}],
       weapon |-> Longsword,
       actor_conditions |-> <<"poisoned">>, enemy_conditions |-> <<>>],
      \* a target that starts prone, and is configured prone as well
      [actor_hp |-> 1,
       target |-> [Goblin EXCEPT !.attack.apply_condition = None,
                                 !.conditions = <<"Prone">>,
                                 !.attack.ranged = TRUE,
                                 !.hp = 7, !.resistances = {"Slashing"}],
       weapon |-> Longsword,
       actor_conditions |-> <<"blinded">>, enemy_conditions |-> <<"prone">>],
      \* a hit restrains until the end-of-turn save (DC 0) ends it
      [actor_hp |-> 2,
       target |-> [Goblin EXCEPT !.attack.apply_condition = RestrainOnHit,
                                 !.ac = 21, !.cover = 2],
       weapon |-> Longsword,
       actor_conditions |-> <<>>, enemy_conditions |-> <<>>],
      \* actor_hp overrides of 0 and below
      [actor_hp |-> 0,
       target |-> [Goblin EXCEPT !.attack.apply_condition = None],
       weapon |-> Longsword,
       actor_conditions |-> <<>>, enemy_conditions |-> <<>>],
      [actor_hp |-> 0 - 1,
       target |-> [Goblin EXCEPT !.attack.apply_condition = None],
       weapon |-> Longsword,
       actor_conditions |-> <<>>, enemy_conditions |-> <<>>] }

\* The values simulate_duel derives from the configuration before the loop.
ActorWeaponDice == IF cfg.weapon.versatile # None
                   THEN cfg.weapon.versatile ELSE cfg.weapon.dice

preset_damage_type(name) ==
    IF name \in {"longsword", "greatsword"} THEN "Slashing"
    ELSE IF name \in {"shortsword", "dagger", "longbow"} THEN "Piercing"
    ELSE "None"

ActorDamageType ==
    LET t == IF cfg.weapon.damage_type # "None" THEN cfg.weapon.damage_type
             ELSE preset_damage_type(cfg.weapon.name)
    IN  IF t = "None" THEN "Slashing" ELSE t

ActorStyle == IF cfg.weapon.ranged THEN "Ranged" ELSE "Melee"

ActorAbility == IF cfg.weapon.ranged \/ cfg.weapon.finesse THEN "Dex" ELSE "Str"

(***************************************************************************)
(* SpecDuel: simulate_duel, one action per library call of the loop.       *)
(***************************************************************************)
InitDuel ==
    /\ cfg \in DuelConfigs
    /\ actor_health = HealthNew(cfg.actor_hp)
    /\ enemy_hp = cfg.target.hp
    /\ actor_conditions = parse_condition_list(cfg.actor_conditions)
    /\ enemy_conditions =
          [i \in 1..Len(cfg.target.conditions) |->
              make_active_condition(cfg.target.conditions[i])]
          \o parse_condition_list(cfg.enemy_conditions)
    /\ rounds = 0
    /\ actor_turn = FALSE
    /\ pc = "initiative"
    /\ winner = ""
    /\ call = NoCall
    /\ NoEncounter
    /\ NoBatch

\* Initiative with a strict comparison: a tie gives the enemy the first turn.
InitiativeStrict ==
    /\ pc = "initiative"
    /\ \E ra \in D20, re \in D20 :
          LET actor_init == ra + ability_mod(sample_fighter.abilities["Dex"])
              enemy_init == re + cfg.target.dex_mod
          IN  /\ actor_turn' = (actor_init > enemy_init)
              /\ call' = Called("initiative", <<actor_init, enemy_init>>,
                                "unit", 2, 2)
    /\ pc' = "round_top"
    /\ UNCHANGED <<actor_health, actor_conditions, enemy_hp,
                   enemy_conditions, rounds, cfg, EncounterVars,
                   batch, winner>>

\* api.rs 244-247: both sides roll a Normal d20 plus dexterity modifier.
Initiative ==
    /\ pc = "initiative"
    /\ \E ra \in D20, re \in D20 :
          LET actor_init == ra + ability_mod(sample_fighter.abilities["Dex"])
              enemy_init == re + cfg.target.dex_mod
          IN  /\ actor_turn' = (actor_init >= enemy_init)
              /\ call' = Called("initiative", <<actor_init, enemy_init>>,
                                "unit", 2, 2)
    /\ pc' = "round_top"
    /\ UNCHANGED <<actor_health, actor_conditions, enemy_hp,
                   enemy_conditions, rounds, cfg, EncounterVars,
                   batch, winner>>

\* api.rs 282-283: the loop guard and the round counter.
RoundTop ==
    /\ pc = "round_top"
    /\ IF rounds < MAX_ROUNDS /\ actor_health.state # Dead /\ enemy_hp > 0
       THEN /\ rounds' = rounds + 1
            /\ pc' = IF actor_turn THEN "actor_death_save" ELSE "enemy_start"
       ELSE /\ rounds' = rounds
            /\ pc' = "finish"
    /\ UNCHANGED <<actor_health, actor_conditions, enemy_hp,
                   enemy_conditions, actor_turn, cfg, EncounterVars,
                   batch, winner, call>>

\* api.rs 295-302.
ActorDeathSave ==
    /\ pc = "actor_death_save"
    /\ \E roll \in D20 :
          LET r == process_death_save_start_of_turn(actor_health, roll)
          IN  /\ actor_health' = r.health
              /\ call' = Called("death_save", 0, r.ret, r.logs, r.draws)
    /\ pc' = "actor_start"
    /\ UNCHANGED <<actor_conditions, enemy_hp, enemy_conditions, rounds,
                   actor_turn, cfg, EncounterVars,
                   batch, winner>>

RollSeqs(n) == [1..n -> D20]

\* api.rs 304-314 and 354-364.
ActorBoundary(at, boundary, next) ==
    /\ pc = at
    /\ \E rolls \in RollSeqs(Cardinality(SaveIndices(boundary, actor_conditions))) :
          LET r == process_turn_boundary(boundary, actor_conditions, rolls,
                                         ActorSaveMods)
          IN  /\ actor_conditions' = r.conditions
              /\ call' = Called("process_turn_boundary", boundary, "unit",
                                r.logs, r.draws)
    /\ pc' = next
    /\ UNCHANGED <<actor_health, enemy_hp, enemy_conditions, rounds,
                   actor_turn, cfg, EncounterVars,
                   batch, winner>>

ActorStartOfTurn == ActorBoundary("actor_start", "StartOfTurn", "actor_action")

ActorEndOfTurn == ActorBoundary("actor_end", "EndOfTurn", "round_end")

\* d20 draws of one Dice::d20 call: one under Normal, two otherwise.
D20Draws(mode) == IF mode = "Normal" THEN 1 ELSE 2

\* The actor's action without the skip of an Unconscious or Dead actor.
ActorActionNoSkip ==
    /\ pc = "actor_action"
    /\ IF FALSE
       THEN /\ UNCHANGED enemy_hp
            /\ call' = CalledOnEnemy("skip_action", 0, "unit", 1, 0)
       ELSE LET cond_vantage == vantage_from_conditions(
                                    actor_conditions, enemy_conditions,
                                    ActorStyle)
                final_mode == combine("Normal", cond_vantage)
                effective_enemy_ac == cfg.target.ac + cfg.target.cover
            IN  \E kept \in D20Kept(final_mode) :
                   LET atk == attack(kept,
                                     attack_bonus(sample_fighter, ActorAbility,
                                                  TRUE),
                                     effective_enemy_ac)
                   IN  /\ call' = CalledOnEnemy("attack", 0, atk.hit, 2,
                                                D20Draws(final_mode))
                       /\ IF atk.hit
                          THEN \E rolled \in roll_total(ActorWeaponDice,
                                                        atk.nat20) :
                                  LET raw == damage(rolled,
                                                    damage_mod(sample_fighter,
                                                               ActorAbility))
                                      dmg == adjust_damage_by_type(
                                                 raw, ActorDamageType,
                                                 cfg.target.resistances,
                                                 cfg.target.vulnerabilities,
                                                 cfg.target.immunities)
                                  IN  enemy_hp' = Max(enemy_hp - dmg, 0)
                          ELSE UNCHANGED enemy_hp
    /\ pc' = "actor_end"
    /\ UNCHANGED <<actor_health, actor_conditions, enemy_conditions, rounds,
                   actor_turn, cfg, EncounterVars,
                   batch, winner>>

\* api.rs 316-352: the actor's action.  The call record holds the attack
\* roll (ret is AttackResult.hit), or the skipped action.
ActorAction ==
    /\ pc = "actor_action"
    /\ IF actor_health.state # Conscious
       THEN /\ UNCHANGED enemy_hp
            /\ call' = CalledOnEnemy("skip_action", 0, "unit", 1, 0)
       ELSE LET cond_vantage == vantage_from_conditions(
                                    actor_conditions, enemy_conditions,
                                    ActorStyle)
                final_mode == combine("Normal", cond_vantage)
                effective_enemy_ac == cfg.target.ac + cfg.target.cover
            IN  \E kept \in D20Kept(final_mode) :
                   LET atk == attack(kept,
                                     attack_bonus(sample_fighter, ActorAbility,
                                                  TRUE),
                                     effective_enemy_ac)
                   IN  /\ call' = CalledOnEnemy("attack", 0, atk.hit, 2,
                                                D20Draws(final_mode))
                       /\ IF atk.hit
                          THEN \E rolled \in roll_total(ActorWeaponDice,
                                                        atk.nat20) :
                                  LET raw == damage(rolled,
                                                    damage_mod(sample_fighter,
                                                               ActorAbility))
                                      dmg == adjust_damage_by_type(
                                                 raw, ActorDamageType,
                                                 cfg.target.resistances,
                                                 cfg.target.vulnerabilities,
                                                 cfg.target.immunities)
                                  IN  enemy_hp' = Max(enemy_hp - dmg, 0)
                          ELSE UNCHANGED enemy_hp
    /\ pc' = "actor_end"
    /\ UNCHANGED <<actor_health, actor_conditions, enemy_conditions, rounds,
                   actor_turn, cfg, EncounterVars,
                   batch, winner>>

\* api.rs 366-376 and 438-448.
EnemyBoundary(at, boundary, next) ==
    /\ pc = at
    /\ \E rolls \in RollSeqs(Cardinality(SaveIndices(boundary, enemy_conditions))) :
          LET r == process_turn_boundary(boundary, enemy_conditions, rolls,
                                         TargetAbilityMods(cfg.target))
          IN  /\ enemy_conditions' = r.conditions
              /\ call' = CalledOnEnemy("process_turn_boundary", boundary,
                                       "unit", r.logs, r.draws)
    /\ pc' = next
    /\ UNCHANGED <<actor_health, actor_conditions, enemy_hp, rounds,
                   actor_turn, cfg, EncounterVars,
                   batch, winner>>

EnemyStartOfTurn == EnemyBoundary("enemy_start", "StartOfTurn", "enemy_attack")

EnemyEndOfTurn == EnemyBoundary("enemy_end", "EndOfTurn", "round_end")

\* api.rs 378-421: the enemy's attack, up to apply_damage.  After a miss
\* the call record holds the attack roll (ret is AttackResult.hit).
EnemyAttack ==
    /\ pc = "enemy_attack"
    /\ IF enemy_hp <= 0
       THEN /\ pc' = "enemy_end"
            /\ UNCHANGED <<actor_health, actor_conditions, call>>
       ELSE LET target_attack == cfg.target.attack
                cond_vantage == vantage_from_conditions(
                                    enemy_conditions, actor_conditions,
                                    IF target_attack.ranged THEN "Ranged"
                                    ELSE "Melee")
                final_mode == combine("Normal", cond_vantage)
            IN  \E kept \in D20Kept(final_mode) :
                   LET atk == attack(kept, target_attack.to_hit,
                                     DEFAULT_ACTOR_AC)
                   IN  IF atk.hit
                       THEN \E rolled \in roll_total(target_attack.dice,
                                                     atk.nat20) :
                               LET dmg == damage(rolled, 0)
                                   r == apply_damage(actor_health,
                                                     actor_conditions, dmg)
                               IN  /\ actor_health' = r.health
                                   /\ actor_conditions' = r.conditions
                                   /\ call' = Called("apply_damage", dmg,
                                                     r.ret, r.logs, 0)
                                   /\ pc' = IF target_attack.apply_condition
                                                 # None
                                            THEN "enemy_on_hit"
                                            ELSE "enemy_end"
                       ELSE /\ pc' = "enemy_end"
                            /\ call' = Called("attack", 0, atk.hit, 2,
                                              D20Draws(final_mode))
                            /\ UNCHANGED <<actor_health, actor_conditions>>
    /\ UNCHANGED <<enemy_hp, enemy_conditions, rounds, actor_turn, cfg, EncounterVars,
                   batch,
                   winner>>

\* api.rs 422-434: the on-hit condition of the enemy's attack.
EnemyOnHit ==
    /\ pc = "enemy_on_hit"
    /\ LET spec == cfg.target.attack.apply_condition
       IN  \E roll \in D20 :
              LET r == maybe_apply_on_hit_condition(actor_conditions, spec,
                                                    roll, ActorSaveMods)
              IN  /\ actor_conditions' = r.conditions
                  /\ call' = Called("maybe_apply_on_hit_condition", 0,
                                    "unit", r.logs, r.draws)
    /\ pc' = "enemy_end"
    /\ UNCHANGED <<actor_health, enemy_hp, enemy_conditions, rounds,
                   actor_turn, cfg, EncounterVars,
                   batch, winner>>

\* api.rs 451-454: leave the loop or hand the turn over.
RoundEnd ==
    /\ pc = "round_end"
    /\ IF actor_health.state = Dead \/ enemy_hp <= 0
       THEN pc' = "finish" /\ UNCHANGED actor_turn
       ELSE pc' = "round_top" /\ actor_turn' = ~actor_turn
    /\ UNCHANGED <<actor_health, actor_conditions, enemy_hp,
                   enemy_conditions, rounds, cfg, EncounterVars,
                   batch, winner, call>>

\* The winner with the enemy winning over a Dead actor only.
WinnerDeadOnly(health, ehp) ==
    IF ehp <= 0 /\ health.hp > 0 THEN "actor"
    ELSE IF ehp <= 0 /\ health.hp <= 0 THEN "draw"
    ELSE IF health.state = Dead THEN "enemy"
    ELSE "draw"

\* api.rs 457-465.
Winner(health, ehp) ==
    IF ehp <= 0 /\ health.hp > 0 THEN "actor"
    ELSE IF ehp <= 0 /\ health.hp <= 0 THEN "draw"
    ELSE IF health.state = Dead \/ health.hp <= 0 THEN "enemy"
    ELSE "draw"

\* cli main.rs 1045-1064: the result line the duel command prints for a
\* terminal state.  With max_rounds 30, no auto-potion and Normal base
\* vantage the command runs the loop of simulate_duel, so it ends in the
\* same states.
cli_duel_result(health, cur_tgt_hp) ==
    LET actor_dead == health.state = Dead
        actor_unconscious == IsUnconscious(health.state)
        actor_hp_left == health.hp
    IN  IF cur_tgt_hp <= 0 /\ actor_hp_left > 0 THEN "Actor defeats target"
        ELSE IF actor_dead THEN "target defeats Actor"
        ELSE IF cur_tgt_hp <= 0 /\ actor_hp_left <= 0 THEN "Mutual KO"
        ELSE IF actor_unconscious /\ cur_tgt_hp > 0
        THEN "Actor is unconscious at 0 HP; target still stands"
        ELSE "Max rounds reached"

Finish ==
    /\ pc = "finish"
    /\ winner' = Winner(actor_health, enemy_hp)
    /\ pc' = "done"
    /\ UNCHANGED <<actor_health, actor_conditions, enemy_hp,
                   enemy_conditions, rounds, actor_turn, cfg, EncounterVars,
                   batch, call>>

NextDuel ==
    \/ Initiative
    \/ RoundTop
    \/ ActorDeathSave
    \/ ActorStartOfTurn
    \/ ActorAction
    \/ ActorEndOfTurn
    \/ EnemyStartOfTurn
    \/ EnemyAttack
    \/ EnemyOnHit
    \/ EnemyEndOfTurn
    \/ RoundEnd
    \/ Finish

SpecDuel == InitDuel /\ [][NextDuel]_vars


(***************************************************************************)
(* SpecEncounter: an encounter of the actor against a list of enemies, as  *)
(* run by simulate_encounter (api.rs, impl "engine") and by the encounter  *)
(* command (cli main.rs, impl "cli").  Both keep the actor's Health and    *)
(* conditions and an EnemyState per enemy and take turns through the same  *)
(* library calls; they differ in the order of the turns, in the loop       *)
(* guards and in the options of the command.  initiative holds the order   *)
(* of a round: for the engine the order of the code (the actor, then the   *)
(* enemies as listed), for the command the sorted initiative entries, of   *)
(* which only kind and index are read after the sort.  entry is the        *)
(* position of the for loop in that order.  The call record has the fields *)
(* of Called and turn, the participant whose turn made the call: 0 for the *)
(* actor, i for enemy i, -1 for the initiative rolls, whose record holds   *)
(* the entries pushed (total, roll, kind, index) as arg.                   *)
(***************************************************************************)
EnemyA == [Goblin EXCEPT !.attack.apply_condition = None]

EncounterConfigs ==
    { [impl |-> "engine", actor_hp |-> 2, file_focus |-> "lowest",
       enemies |-> <<[EnemyA EXCEPT !.hp = 5], Goblin>>,
       weapon |-> Longsword, actor_conditions |-> <<>>],
      [impl |-> "engine", actor_hp |-> 1, file_focus |-> "first",
       enemies |-> <<[EnemyA EXCEPT !.hp = 0], EnemyA>>,
       weapon |-> Longsword, actor_conditions |-> <<"prone">>],
      [impl |-> "cli", actor_hp |-> 2, file_focus |-> "first",
       enemies |-> <<EnemyA, Goblin>>,
       weapon |-> Longsword, actor_conditions |-> <<>>, actor_ac |-> 16,
       max_rounds |-> 5, auto_potion |-> FALSE, short_rest |-> FALSE,
       focus |-> "first", two_handed |-> FALSE,
       actor |-> sample_fighter],
      [impl |-> "cli", actor_hp |-> 1, file_focus |-> "first",
       enemies |-> <<[EnemyA EXCEPT !.hp = 12], EnemyA>>,
       weapon |-> Longsword, actor_conditions |-> <<>>, actor_ac |-> 16,
       max_rounds |-> 4, auto_potion |-> TRUE, short_rest |-> TRUE,
       focus |-> "lowest", two_handed |-> TRUE,
       actor |-> sample_fighter],
      [impl |-> "cli", actor_hp |-> 1, file_focus |-> "random",
       enemies |-> <<EnemyA, EnemyA>>,
       weapon |-> Longsword, actor_conditions |-> <<>>, actor_ac |-> 16,
       max_rounds |-> 4, auto_potion |-> FALSE, short_rest |-> FALSE,
       focus |-> "first", two_handed |-> FALSE,
       actor |-> [sample_fighter EXCEPT !.abilities.Str = 6]] }

IsCli == cfg.impl = "cli"

\* cli main.rs 1092-1097: the actor of the encounter command is read from
\* a file when one is given; api.rs 528 always takes sample_fighter.
EncActor == IF IsCli THEN cfg.actor ELSE sample_fighter

\* cli main.rs 1213-1215 (and api.rs 595).
enemies_defeated(es) == \A i \in 1..Len(es) : es[i].hp <= 0

\* cli main.rs 1217-1248: the enemies the strategy can pick; "random"
\* draws a die over the enemies alive.
select_enemy_target(strategy, es) ==
    LET alive == {i \in 1..Len(es) : es[i].hp > 0}
    IN  IF alive = {} THEN {}
        ELSE IF strategy = "lowest"
        THEN {i \in alive : \A j \in alive :
                 es[i].hp < es[j].hp \/ (es[i].hp = es[j].hp /\ i <= j)}
        ELSE IF strategy = "random" THEN alive
        ELSE {i \in alive : \A j \in alive : i <= j}

\* cli main.rs 1257-1274: the entries pushed, the actor's first.
initiative_entries(actor_roll, enemy_rolls, es) ==
    <<[total |-> actor_roll + ability_mod(EncActor.abilities["Dex"]),
       roll |-> actor_roll, kind |-> 0, index |-> 0]>>
    \o [i \in 1..Len(es) |->
          [total |-> enemy_rolls[i] + es[i].dex_mod,
           roll |-> enemy_rolls[i], kind |-> 1, index |-> i]]

\* cli main.rs 1276-1282: a sorts before b.
InitiativeBefore(a, b) ==
    \/ a.total > b.total
    \/ a.total = b.total /\ a.roll > b.roll
    \/ a.total = b.total /\ a.roll = b.roll /\ a.kind < b.kind
    \/ a.total = b.total /\ a.roll = b.roll /\ a.kind = b.kind
          /\ a.index < b.index

\* cli main.rs 1257-1282: the entries of the actor and of every enemy,
\* sorted.
initiative_order(actor_roll, enemy_rolls, es) ==
    LET pushed  == initiative_entries(actor_roll, enemy_rolls, es)
        entries == {pushed[k] : k \in 1..Len(pushed)}
        At(k) == CHOOSE e \in entries :
                    Cardinality({f \in entries : InitiativeBefore(f, e)})
                        = k - 1
    IN  [k \in 1..Cardinality(entries) |->
            [kind |-> At(k).kind, index |-> At(k).index]]

CalledEnc(op, turn, who, conds, arg, ret, logs, draws) ==
    [op |-> op, who |-> who, arg |-> arg, ret |-> ret, pre |-> actor_health,
     preConds |-> conds, logs |-> logs, draws |-> draws, round |-> rounds,
     turn |-> turn]

InitEncounter ==
    /\ cfg \in EncounterConfigs
    /\ actor_health = HealthNew(cfg.actor_hp)
    /\ actor_conditions = parse_condition_list(cfg.actor_conditions)
    /\ enemies = [i \in 1..Len(cfg.enemies) |->
                    [hp |-> cfg.enemies[i].hp,
                     conditions |->
                        [k \in 1..Len(cfg.enemies[i].conditions) |->
                            make_active_condition(cfg.enemies[i].conditions[k])]]]
    /\ initiative = IF IsCli THEN <<>>
                    ELSE <<[kind |-> 0, index |-> 0]>>
                           \o [i \in 1..Len(cfg.enemies) |->
                                 [kind |-> 1, index |-> i]]
    /\ entry = 0
    /\ auto_potion_left = (IsCli /\ cfg.auto_potion)
    /\ rounds = IF IsCli THEN 1 ELSE 0
    /\ pc = IF IsCli THEN "enc_initiative" ELSE "enc_top"
    /\ enemy_hp = 0
    /\ enemy_conditions = <<>>
    /\ actor_turn = FALSE
    /\ winner = ""
    /\ call = NoCall
    /\ NoBatch

EncFrame == UNCHANGED <<enemy_hp, enemy_conditions, actor_turn, cfg, batch>>

\* cli main.rs 1257-1282.
EncInitiative ==
    /\ pc = "enc_initiative"
    /\ \E actor_roll \in D20, enemy_rolls \in RollSeqs(Len(enemies)) :
          /\ initiative' = initiative_order(actor_roll, enemy_rolls,
                                            cfg.enemies)
          /\ call' = CalledEnc("initiative", 0 - 1, "all", <<>>,
                               initiative_entries(actor_roll, enemy_rolls,
                                                  cfg.enemies),
                               "unit", 0, 1 + Len(enemies))
    /\ pc' = "enc_top"
    /\ UNCHANGED <<actor_health, actor_conditions, rounds, winner, enemies,
                   entry, auto_potion_left>>
    /\ EncFrame

\* api.rs 591-599 and cli main.rs 1318-1322: the guard of the round loop.
EncRoundTop ==
    /\ pc = "enc_top"
    /\ IF IsCli
       THEN IF /\ rounds <= cfg.max_rounds
               /\ actor_health.state # Dead
               /\ ~enemies_defeated(enemies)
            THEN pc' = "enc_entry" /\ entry' = 1 /\ rounds' = rounds
            ELSE pc' = "enc_finish" /\ UNCHANGED <<entry, rounds>>
       ELSE IF /\ rounds < MAX_ROUNDS * 4
               /\ ~(actor_health.state = Dead \/ actor_health.hp <= 0)
               /\ ~enemies_defeated(enemies)
            THEN pc' = "enc_entry" /\ entry' = 1 /\ rounds' = rounds + 1
            ELSE pc' = "enc_finish" /\ UNCHANGED <<entry, rounds>>
    /\ UNCHANGED <<actor_health, actor_conditions, winner, call, enemies,
                   initiative, auto_potion_left>>
    /\ EncFrame

\* The round of the command without the check before each entry.
EncEntryNoBreak ==
    /\ pc = "enc_entry"
    /\ IF entry > Len(initiative)
       THEN /\ pc' = "enc_top"
            /\ rounds' = IF IsCli THEN rounds + 1 ELSE rounds
            /\ entry' = entry
       ELSE /\ rounds' = rounds
            /\ IF initiative[entry].kind = 0
               THEN pc' = "enc_death_save" /\ entry' = entry
               ELSE IF enemies[initiative[entry].index].hp <= 0
               THEN pc' = "enc_entry" /\ entry' = entry + 1
               ELSE pc' = "enc_enemy_start" /\ entry' = entry
    /\ UNCHANGED <<actor_health, actor_conditions, winner, call, enemies,
                   initiative, auto_potion_left>>
    /\ EncFrame

\* cli main.rs 1323-1328, 1438-1442, 1575 and api.rs 678-681: the next
\* entry of the round.  The command leaves the round when a side is
\* defeated; an enemy at 0 HP is passed over.
EncEntry ==
    /\ pc = "enc_entry"
    /\ IF entry > Len(initiative)
       THEN /\ pc' = "enc_top"
            /\ rounds' = IF IsCli THEN rounds + 1 ELSE rounds
            /\ entry' = entry
       ELSE IF IsCli /\ (actor_health.state = Dead
                           \/ enemies_defeated(enemies))
       THEN /\ pc' = "enc_top"
            /\ rounds' = rounds + 1
            /\ entry' = entry
       ELSE /\ rounds' = rounds
            /\ IF initiative[entry].kind = 0
               THEN pc' = "enc_death_save" /\ entry' = entry
               ELSE IF enemies[initiative[entry].index].hp <= 0
               THEN pc' = "enc_entry" /\ entry' = entry + 1
               ELSE pc' = "enc_enemy_start" /\ entry' = entry
    /\ UNCHANGED <<actor_health, actor_conditions, winner, call, enemies,
                   initiative, auto_potion_left>>
    /\ EncFrame

\* api.rs 602-609 and cli main.rs 1329-1336.
EncActorDeathSave ==
    /\ pc = "enc_death_save"
    /\ \E roll \in D20 :
          LET r == process_death_save_start_of_turn(actor_health, roll)
          IN  /\ actor_health' = r.health
              /\ call' = CalledEnc("death_save", 0, "actor",
                                   actor_conditions, 0, r.ret, r.logs,
                                   r.draws)
    /\ pc' = "enc_actor_start"
    /\ UNCHANGED <<actor_conditions, rounds, winner, EncounterVars>>
    /\ EncFrame

\* api.rs 611-621, 666-676 and cli main.rs 1338-1348, 1426-1436.
EncActorBoundary(at, boundary) ==
    /\ pc = at
    /\ \E rolls \in RollSeqs(Cardinality(SaveIndices(boundary,
                                                     actor_conditions))) :
          LET r == process_turn_boundary(boundary, actor_conditions, rolls,
                                         ActorSaveMods)
          IN  /\ actor_conditions' = r.conditions
              /\ call' = CalledEnc("process_turn_boundary", 0, "actor",
                                   actor_conditions, boundary, "unit",
                                   r.logs, r.draws)
    /\ IF boundary = "StartOfTurn"
       THEN pc' = "enc_actor_action" /\ entry' = entry
       ELSE pc' = "enc_entry" /\ entry' = entry + 1
    /\ UNCHANGED <<actor_health, rounds, winner, enemies, initiative,
                   auto_potion_left>>
    /\ EncFrame

EncActorStartOfTurn == EncActorBoundary("enc_actor_start", "StartOfTurn")

EncActorEndOfTurn == EncActorBoundary("enc_actor_end", "EndOfTurn")

\* The enemies the actor can attack: the first one alive for the engine
\* (api.rs 624), which does not read the focus of the encounter file; the
\* choice of the focus strategy for the command (cli main.rs 1124-1128:
\* the option, or the focus of the file when the option is "first").
focus_strategy ==
    IF cfg.focus = "first" /\ cfg.file_focus # "first" THEN cfg.file_focus
    ELSE cfg.focus

EncTargets ==
    IF IsCli THEN select_enemy_target(focus_strategy, enemies)
    ELSE select_enemy_target("first", enemies)

EncWeaponDice ==
    IF IsCli
    THEN IF cfg.two_handed /\ cfg.weapon.versatile # None
         THEN cfg.weapon.versatile ELSE cfg.weapon.dice
    ELSE ActorWeaponDice

\* api.rs 623-664 and cli main.rs 1350-1424: nothing for an actor who is
\* not Conscious, else one attack on the chosen enemy.
EncActorAction ==
    /\ pc = "enc_actor_action"
    /\ IF actor_health.state # Conscious
       THEN /\ UNCHANGED enemies
            /\ call' = CalledEnc("skip_action", 0, "actor", actor_conditions,
                                 0, "unit", IF IsCli THEN 1 ELSE 0, 0)
       ELSE IF EncTargets = {}
       THEN /\ UNCHANGED enemies
            /\ call' = CalledEnc("no_target", 0, "actor", actor_conditions,
                                 0, "unit", 0, 0)
       ELSE \E t \in EncTargets :
               LET cond_vantage == vantage_from_conditions(
                                       actor_conditions,
                                       enemies[t].conditions, ActorStyle)
                   final_mode == combine("Normal", cond_vantage)
                   ac == IF IsCli THEN cfg.enemies[t].ac
                         ELSE cfg.enemies[t].ac + cfg.enemies[t].cover
               IN  \E kept \in D20Kept(final_mode) :
                      LET atk == attack(kept,
                                        attack_bonus(EncActor,
                                                     ActorAbility, TRUE),
                                        ac)
                      IN  /\ call' = CalledEnc("attack", 0, t,
                                               enemies[t].conditions, 0,
                                               atk.hit, 2,
                                               D20Draws(final_mode))
                          /\ IF atk.hit
                             THEN \E rolled \in roll_total(EncWeaponDice,
                                                           atk.nat20) :
                                     LET raw == damage(
                                                  rolled,
                                                  damage_mod(EncActor,
                                                             ActorAbility))
                                         dmg == adjust_damage_by_type(
                                                  raw, ActorDamageType,
                                                  cfg.enemies[t].resistances,
                                                  cfg.enemies[t].vulnerabilities,
                                                  cfg.enemies[t].immunities)
                                     IN  enemies' =
                                            [enemies EXCEPT
                                                ![t].hp = Max(@ - dmg, 0)]
                             ELSE UNCHANGED enemies
    /\ pc' = "enc_actor_end"
    /\ UNCHANGED <<actor_health, actor_conditions, rounds, winner,
                   initiative, entry, auto_potion_left>>
    /\ EncFrame

\* api.rs 683-694, 750-760 and cli main.rs 1444-1466, 1548-1570.
EncEnemyBoundary(at, boundary) ==
    /\ pc = at
    /\ LET i == initiative[entry].index
       IN  \E rolls \in RollSeqs(Cardinality(
                           SaveIndices(boundary, enemies[i].conditions))) :
              LET r == process_turn_boundary(boundary, enemies[i].conditions,
                                             rolls,
                                             TargetAbilityMods(cfg.enemies[i]))
              IN  /\ enemies' = [enemies EXCEPT ![i].conditions = r.conditions]
                  /\ call' = CalledEnc("process_turn_boundary", i, i,
                                       enemies[i].conditions, boundary,
                                       "unit", r.logs, r.draws)
    /\ IF boundary = "StartOfTurn"
       THEN pc' = "enc_enemy_attack" /\ entry' = entry
       ELSE pc' = "enc_entry" /\ entry' = entry + 1
    /\ UNCHANGED <<actor_health, actor_conditions, rounds, winner,
                   initiative, auto_potion_left>>
    /\ EncFrame

EncEnemyStartOfTurn == EncEnemyBoundary("enc_enemy_start", "StartOfTurn")

EncEnemyEndOfTurn == EncEnemyBoundary("enc_enemy_end", "EndOfTurn")

\* An auto-potion that is consumed without healing.
AutoPotionNoHeal(health) == health

\* cli main.rs 1514 (and 996 in the duel command): the potion heals 7.
auto_potion_heal(health) == heal(health, 7).health

\* api.rs 696-732 and cli main.rs 1468-1521, 1535-1545: the enemy's first
\* attack, apply_damage on a hit and, in the command, the auto-potion.
EncEnemyAttack ==
    /\ pc = "enc_enemy_attack"
    /\ LET i == initiative[entry].index
           target_attack == cfg.enemies[i].attack
           cond_vantage == vantage_from_conditions(
                               enemies[i].conditions, actor_conditions,
                               IF target_attack.ranged THEN "Ranged"
                               ELSE "Melee")
           final_mode == combine("Normal", cond_vantage)
           actor_ac == IF IsCli THEN cfg.actor_ac ELSE DEFAULT_ACTOR_AC
       IN  \E kept \in D20Kept(final_mode) :
              LET atk == attack(kept, target_attack.to_hit, actor_ac)
              IN  IF atk.hit
                  THEN \E rolled \in roll_total(target_attack.dice,
                                                atk.nat20) :
                          LET dmg == damage(rolled, 0)
                              r == apply_damage(actor_health,
                                                actor_conditions, dmg)
                              potion == IsCli /\ r.ret /\ auto_potion_left
                          IN  /\ actor_health' =
                                    IF potion THEN auto_potion_heal(r.health)
                                    ELSE r.health
                              /\ auto_potion_left' =
                                    IF potion THEN FALSE
                                    ELSE auto_potion_left
                              /\ actor_conditions' = r.conditions
                              /\ call' = CalledEnc("apply_damage", i, "actor",
                                                   actor_conditions, dmg,
                                                   r.ret, r.logs, 0)
                              /\ pc' = IF target_attack.apply_condition # None
                                       THEN "enc_enemy_on_hit"
                                       ELSE "enc_enemy_end"
                  ELSE /\ pc' = "enc_enemy_end"
                       /\ call' = CalledEnc("attack", i, "actor",
                                            actor_conditions, 0, atk.hit, 2,
                                            D20Draws(final_mode))
                       /\ UNCHANGED <<actor_health, actor_conditions,
                                      auto_potion_left>>
    /\ UNCHANGED <<rounds, winner, enemies, initiative, entry>>
    /\ EncFrame

\* api.rs 733-745 and cli main.rs 1522-1534.
EncEnemyOnHit ==
    /\ pc = "enc_enemy_on_hit"
    /\ LET i == initiative[entry].index
           spec == cfg.enemies[i].attack.apply_condition
       IN  \E roll \in D20 :
              LET r == maybe_apply_on_hit_condition(actor_conditions, spec,
                                                    roll, ActorSaveMods)
              IN  /\ actor_conditions' = r.conditions
                  /\ call' = CalledEnc("maybe_apply_on_hit_condition", i,
                                       "actor", actor_conditions, 0, "unit",
                                       r.logs, r.draws)
    /\ pc' = "enc_enemy_end"
    /\ UNCHANGED <<actor_health, rounds, winner, EncounterVars>>
    /\ EncFrame

\* api.rs 764-765: EncounterResult.survived.
encounter_survived(health) == health.hp > 0 /\ health.state # Dead

\* cli main.rs 1578-1623: the result line of the encounter command.
cli_encounter_result(health, es) ==
    LET enemies_down == enemies_defeated(es)
        actor_dead == health.state = Dead
    IN  IF actor_dead /\ enemies_down THEN "Mutual KO"
        ELSE IF actor_dead THEN "Actor falls"
        ELSE IF enemies_down
        THEN IF health.hp > 0 THEN "Actor victorious"
             ELSE "Actor victorious but at 0 HP"
        ELSE IF IsUnconscious(health.state)
        THEN "Actor is unconscious at 0 HP"
        ELSE "Max rounds reached"

\* api.rs 764-777 and cli main.rs 1578-1628: the result and, in the
\* command, the short rest.
EncFinish ==
    /\ pc = "enc_finish"
    /\ winner' = IF IsCli THEN cli_encounter_result(actor_health, enemies)
                 ELSE IF encounter_survived(actor_health) THEN "survived"
                 ELSE "not survived"
    /\ actor_health' = IF IsCli /\ cfg.short_rest
                            /\ actor_health.state # Dead
                       THEN heal(actor_health, 5).health
                       ELSE actor_health
    /\ pc' = "enc_done"
    /\ UNCHANGED <<actor_conditions, rounds, call, EncounterVars>>
    /\ EncFrame

NextEncounter ==
    \/ EncInitiative
    \/ EncRoundTop
    \/ EncEntry
    \/ EncActorDeathSave
    \/ EncActorStartOfTurn
    \/ EncActorAction
    \/ EncActorEndOfTurn
    \/ EncEnemyStartOfTurn
    \/ EncEnemyAttack
    \/ EncEnemyOnHit
    \/ EncEnemyEndOfTurn
    \/ EncFinish

SpecEncounter == InitEncounter /\ [][NextEncounter]_vars


(***************************************************************************)
(* SpecCond: a caller of conditions.rs on one condition list.  The list    *)
(* starts with at most one condition, built from a ConditionSpec or by     *)
(* make_active_condition, and grows by on-hit applications.  The caller's  *)
(* saving_throw_fn closure is the one of api.rs: a Normal d20 plus the     *)
(* bearer's save_mod for the requested ability.  The call record carries,  *)
(* besides the fields of Called, the d20s the closure drew (rolls), the    *)
(* bearer's save modifiers (mods) and the messages logged (log).           *)
(***************************************************************************)
MaxConds == 2

\* The on-hit specifications of the duel configurations, Prone until the
\* start and until the end of the turn, and a poison that lasts until the
\* start of the turn unless a save ends it earlier.
HarnessSpecs ==
    {PoisonOnHit, ProneOnHit, RestrainOnHit,
     [kind |-> "Prone", save |-> None,
      duration |-> [until |-> "StartOfTurn", save_ends_each_turn |-> FALSE]],
     [kind |-> "Prone", save |-> None,
      duration |-> [until |-> "EndOfTurn", save_ends_each_turn |-> FALSE]],
     [kind |-> "Poisoned", save |-> [ability |-> "Wis", dc |-> 10],
      duration |-> [until |-> "StartOfTurn", save_ends_each_turn |-> TRUE]]}

\* The save modifiers of the sample fighter and of a bearer whose every
\* ability score is 1 (every save modifier is -5).
HarnessMods ==
    {[a \in Ability |-> save_mod(actor, a)] :
        actor \in {sample_fighter,
                   [abilities |-> [a \in Ability |-> 1],
                    proficiency_bonus |-> 2, save_proficiencies |-> {}]}}

CalledCond(op, arg, rolls, mods, r) ==
    [op |-> op, who |-> "actor", arg |-> arg, ret |-> "unit",
     pre |-> actor_health, preConds |-> actor_conditions, logs |-> r.logs,
     draws |-> r.draws, round |-> rounds, rolls |-> rolls, mods |-> mods,
     log |-> r.log]

InitCond ==
    /\ actor_health = HealthNew(MaxHP)
    /\ cfg = [actor_hp |-> MaxHP]
    /\ actor_conditions \in
          {<<>>, <<make_active_condition("Prone")>>}
             \cup {<<from_spec_for_application(spec)>> :
                      spec \in HarnessSpecs}
    /\ enemy_hp = 0
    /\ enemy_conditions = <<>>
    /\ rounds = 0
    /\ actor_turn = FALSE
    /\ pc = "cond_api"
    /\ winner = ""
    /\ call = NoCall
    /\ NoEncounter
    /\ NoBatch

BoundaryCall ==
    /\ pc = "cond_api"
    /\ \E boundary \in {"StartOfTurn", "EndOfTurn"}, mods \in HarnessMods :
       \E rolls \in RollSeqs(Cardinality(SaveIndices(boundary,
                                                     actor_conditions))) :
          LET r == process_turn_boundary(boundary, actor_conditions, rolls,
                                         mods)
          IN  /\ actor_conditions' = r.conditions
              /\ call' = CalledCond("process_turn_boundary", boundary, rolls,
                                    mods, r)
    /\ UNCHANGED actor_health
    /\ DuelUnchanged

OnHitCall ==
    /\ pc = "cond_api"
    /\ Len(actor_conditions) < MaxConds
    /\ \E spec \in HarnessSpecs, mods \in HarnessMods :
       \E rolls \in RollSeqs(IF spec.save # None THEN 1 ELSE 0) :
          LET r == maybe_apply_on_hit_condition(
                       actor_conditions, spec,
                       IF rolls = <<>> THEN 0 ELSE rolls[1], mods)
          IN  /\ actor_conditions' = r.conditions
              /\ call' = CalledCond("maybe_apply_on_hit_condition", spec,
                                    rolls, mods, r)
    /\ UNCHANGED actor_health
    /\ DuelUnchanged

NextCond ==
    \/ BoundaryCall
    \/ OnHitCall

SpecCond == InitCond /\ [][NextCond]_vars

(***************************************************************************)
(* SpecMany: simulate_duel_many, with every sample's simulate_duel run as  *)
(* the duel of SpecDuel after the set-up that loads and parses its         *)
(* content.  A text is modelled by what serde reads from it: a target      *)
(* (TargetData and its attacks), a list of weapons, or neither.            *)
(***************************************************************************)
MaxSamples == 2

\* A u64 is four 16-bit limbs, least significant first.
U64(n) == <<n, 0, 0, 0>>

U64Max == <<2 ^ 16 - 1, 2 ^ 16 - 1, 2 ^ 16 - 1, 2 ^ 16 - 1>>

\* u64::wrapping_add(a, n) for n < 2^16: the carry out of the last limb is
\* dropped.
RECURSIVE wrapping_add(_, _)
wrapping_add(a, n) ==
    IF a = <<>> THEN <<>>
    ELSE LET s == Head(a) + n
         IN  <<s % (2 ^ 16)>> \o wrapping_add(Tail(a), s \div (2 ^ 16))

\* A text is [kind |-> "target", target, attacks], [kind |-> "weapons",
\* weapons] or, when it is neither, [kind |-> "garbage"].
\* content.rs 3-12.
builtin_targets ==
    [id \in {"poison_goblin"} |->
        [kind |-> "target", target |-> Goblin,
         attacks |-> <<Goblin.attack>>]]

builtin_weapons ==
    [id \in {"basic"} |-> [kind |-> "weapons", weapons |-> <<Longsword>>]]

\* The files fs::read_to_string finds; any other path is a read error.
Files ==
    [p \in {"sparring.json", "harmless.json", "broken.json"} |->
        CASE p = "sparring.json" ->
                [kind |-> "target", target |-> [Goblin EXCEPT !.hp = 1],
                 attacks |-> <<[Goblin.attack EXCEPT
                                  !.apply_condition.save.dc = 0],
                               Goblin.attack>>]
          [] p = "harmless.json" ->
                [kind |-> "target", target |-> Goblin, attacks |-> <<>>]
          [] p = "broken.json" -> [kind |-> "garbage"]]

\* api.rs 148-177.  A result is [ok |-> TRUE, value |-> v] or
\* [ok |-> FALSE, error |-> message].
Ok(v) == [ok |-> TRUE, value |-> v]

Err(e) == [ok |-> FALSE, error |-> e]

load_json_from_path_or_builtin(path, id, map) ==
    IF path # "None" /\ path \in DOMAIN Files THEN Ok(Files[path])
    ELSE IF path # "None" /\ id = "None"
    THEN Err("failed to read JSON from path")
    ELSE IF id # "None" /\ id \in DOMAIN map THEN Ok(map[id])
    ELSE IF id # "None" /\ path = "None" THEN Err("built-in id not found")
    ELSE IF path # "None" THEN Err("failed to load content from path")
    ELSE Err("no content found")

\* api.rs 780-786.
parse_target_json(text) ==
    IF text.kind = "target" THEN Ok(text)
    ELSE Err("failed to parse target JSON")

parse_weapons_json(text) ==
    IF text.kind = "weapons" THEN Ok(text.weapons)
    ELSE Err("failed to parse weapons JSON")

\* str::eq_ignore_ascii_case on the names in use.
to_ascii_lowercase(s) ==
    CASE s = "Longsword" -> "longsword"
      [] s = "LONGSWORD" -> "longsword"
      [] OTHER -> s

\* api.rs 788-790: the first weapon of that name, or None.
RECURSIVE find_weapon(_, _)
find_weapon(weapons, name) ==
    IF weapons = <<>> THEN None
    ELSE IF to_ascii_lowercase(Head(weapons).name) = to_ascii_lowercase(name)
    THEN Head(weapons)
    ELSE find_weapon(Tail(weapons), name)

DEFAULT_ACTOR_HP == 12

Some(v) == [tag |-> "Some", value |-> v]

\* api.rs 179-198: what simulate_duel reads before it builds any state.
\* The result is the resolved configuration the loop runs on, or the error.
duel_content(run) ==
    LET target_json ==
            load_json_from_path_or_builtin(run.target_path, run.target_id,
                                           builtin_targets)
        weapons_json ==
            load_json_from_path_or_builtin(run.weapons_path, run.weapons_id,
                                           builtin_weapons)
    IN  IF ~target_json.ok THEN target_json
        ELSE IF ~weapons_json.ok THEN weapons_json
        ELSE LET target == parse_target_json(target_json.value)
             IN  IF ~target.ok THEN target
                 ELSE IF target.value.attacks = <<>>
                 THEN Err("target has no attacks")
                 ELSE LET weapons == parse_weapons_json(weapons_json.value)
                      IN  IF ~weapons.ok THEN weapons
                          ELSE LET weapon == find_weapon(weapons.value,
                                                         run.weapon)
                               IN  IF weapon = None
                                   THEN Err("weapon not found")
                                   ELSE Ok([actor_hp |->
                                              IF run.actor_hp = None
                                              THEN DEFAULT_ACTOR_HP
                                              ELSE run.actor_hp.value,
                                            target |->
                                              [target.value.target EXCEPT
                                                 !.attack =
                                                   target.value.attacks[1]],
                                            weapon |-> weapon,
                                            actor_conditions |->
                                              run.actor_conditions,
                                            enemy_conditions |->
                                              run.enemy_conditions,
                                            seed |-> run.seed])

\* The DuelConfig values simulate_duel_many is called with.
SparringConfig ==
    [target_path |-> "sparring.json", target_id |-> "None",
     weapons_path |-> "None", weapons_id |-> "basic", weapon |-> "Longsword",
     actor_conditions |-> <<>>, enemy_conditions |-> <<>>,
     seed |-> U64Max, actor_hp |-> Some(1)]

ManyInputs ==
    { [cfg |-> SparringConfig, samples |-> MaxSamples],
      [cfg |-> [SparringConfig EXCEPT !.seed = U64(7)], samples |-> 0],
      \* a target without attacks
      [cfg |-> [SparringConfig EXCEPT !.target_path = "harmless.json"],
       samples |-> MaxSamples],
      \* a weapon the list does not have
      [cfg |-> [SparringConfig EXCEPT !.weapon = "halberd"], samples |-> 1],
      \* content that does not parse
      [cfg |-> [SparringConfig EXCEPT !.target_path = "broken.json"],
       samples |-> 1],
      [cfg |-> [SparringConfig EXCEPT !.weapons_path = "broken.json"],
       samples |-> 1],
      \* content that cannot be loaded
      [cfg |-> [SparringConfig EXCEPT !.target_path = "absent.json"],
       samples |-> 1],
      [cfg |-> [SparringConfig EXCEPT !.weapons_id = "exotic"],
       samples |-> 1] }

InitMany ==
    /\ \E input \in ManyInputs :
          /\ batch = [op |-> "simulate_duel_many", cfg |-> input.cfg,
                      samples |-> input.samples, i |-> 0, actor_wins |-> 0,
                      enemy_wins |-> 0, draws |-> 0, sum_rounds |-> 0,
                      result |-> None]
          /\ cfg = input.cfg
    /\ actor_health = HealthNew(0)
    /\ actor_conditions = <<>>
    /\ enemy_hp = 0
    /\ enemy_conditions = <<>>
    /\ rounds = 0
    /\ actor_turn = FALSE
    /\ pc = "many_loop"
    /\ winner = ""
    /\ call = NoCall
    /\ NoEncounter

\* api.rs 487-489 and 499-505: the loop guard; a further sample runs on a
\* clone of the configuration with its own seed, and after the last one the
\* statistics are returned.  avg_rounds is kept as the fraction it divides.
ManyLoop ==
    /\ pc = "many_loop"
    /\ IF batch.i < batch.samples
       THEN /\ cfg' = [batch.cfg EXCEPT
                          !.seed = wrapping_add(batch.cfg.seed, batch.i)]
            /\ pc' = "duel_setup"
            /\ UNCHANGED batch
       ELSE /\ batch' = [batch EXCEPT !.result =
                           Ok([samples |-> batch.samples,
                               actor_wins |-> batch.actor_wins,
                               enemy_wins |-> batch.enemy_wins,
                               draws |-> batch.draws,
                               avg_rounds |-> <<batch.sum_rounds,
                                                Max(batch.samples, 1)>>])]
            /\ pc' = "many_done"
            /\ UNCHANGED cfg
    /\ UNCHANGED <<actor_health, actor_conditions, enemy_hp,
                   enemy_conditions, rounds, actor_turn, winner, call,
                   EncounterVars>>

\* The state simulate_duel builds once its content is read (api.rs 200-242).
DuelFresh(run) ==
    /\ actor_health' = HealthNew(run.actor_hp)
    /\ enemy_hp' = run.target.hp
    /\ actor_conditions' = parse_condition_list(run.actor_conditions)
    /\ enemy_conditions' =
          [k \in 1..Len(run.target.conditions) |->
              make_active_condition(run.target.conditions[k])]
          \o parse_condition_list(run.enemy_conditions)
    /\ rounds' = 0
    /\ actor_turn' = FALSE
    /\ winner' = ""
    /\ call' = NoCall

\* A set-up that looks for the weapon only after the initiative rolls.
DuelSetupLate ==
    /\ pc = "duel_setup"
    /\ LET content == duel_content(cfg)
       IN  IF content.ok
           THEN /\ cfg' = content.value
                /\ DuelFresh(content.value)
                /\ pc' = "initiative"
                /\ UNCHANGED batch
           ELSE /\ batch' = [batch EXCEPT !.result = content]
                /\ pc' = "many_error"
                /\ call' = IF content.error = "weapon not found"
                           THEN Called("initiative", <<0, 0>>, "unit", 2, 2)
                           ELSE call
                /\ UNCHANGED <<actor_health, actor_conditions, enemy_hp,
                               enemy_conditions, rounds, actor_turn, winner,
                               cfg>>
    /\ UNCHANGED EncounterVars

\* api.rs 179-242, and 490 for the error: simulate_duel reads its content and
\* either fails, which ends simulate_duel_many with the same error, or builds
\* the state of a new duel.
DuelSetup ==
    /\ pc = "duel_setup"
    /\ LET content == duel_content(cfg)
       IN  IF content.ok
           THEN /\ cfg' = content.value
                /\ DuelFresh(content.value)
                /\ pc' = "initiative"
                /\ UNCHANGED batch
           ELSE /\ batch' = [batch EXCEPT !.result = content]
                /\ pc' = "many_error"
                /\ UNCHANGED <<actor_health, actor_conditions, enemy_hp,
                               enemy_conditions, rounds, actor_turn, winner,
                               call, cfg>>
    /\ UNCHANGED EncounterVars

\* A tally that counts a draw for neither side and for no one.
ManyTallyNoDraw ==
    /\ pc = "done"
    /\ batch' = [batch EXCEPT
                    !.sum_rounds = @ + rounds,
                    !.actor_wins = IF winner = "actor" THEN @ + 1 ELSE @,
                    !.enemy_wins = IF winner = "enemy" THEN @ + 1 ELSE @,
                    !.i = @ + 1]
    /\ pc' = "many_loop"
    /\ UNCHANGED <<actor_health, actor_conditions, enemy_hp,
                   enemy_conditions, rounds, actor_turn, winner, call, cfg,
                   EncounterVars>>

\* api.rs 490-497: the sample's result is counted.
ManyTally ==
    /\ pc = "done"
    /\ batch' = [batch EXCEPT
                    !.sum_rounds = @ + rounds,
                    !.actor_wins = IF winner = "actor" THEN @ + 1 ELSE @,
                    !.enemy_wins = IF winner = "enemy" THEN @ + 1 ELSE @,
                    !.draws = IF winner \notin {"actor", "enemy"}
                              THEN @ + 1 ELSE @,
                    !.i = @ + 1]
    /\ pc' = "many_loop"
    /\ UNCHANGED <<actor_health, actor_conditions, enemy_hp,
                   enemy_conditions, rounds, actor_turn, winner, call, cfg,
                   EncounterVars>>

NextMany ==
    \/ ManyLoop
    \/ DuelSetup
    \/ Initiative
    \/ RoundTop
    \/ ActorDeathSave
    \/ ActorStartOfTurn
    \/ ActorAction
    \/ ActorEndOfTurn
    \/ EnemyStartOfTurn
    \/ EnemyAttack
    \/ EnemyOnHit
    \/ EnemyEndOfTurn
    \/ RoundEnd
    \/ Finish
    \/ ManyTally

SpecMany == InitMany /\ [][NextMany]_vars

(***************************************************************************)
(* SpecContest: a caller of combat/actions.rs on one defender, whose       *)
(* condition list is actor_conditions.  Between the contests the defender  *)
(* can be hit by an attack that knocks prone (ProneOnHit).  rolls are the  *)
(* values the d20 closure returns, in the order of its calls; mods are the *)
(* three modifiers passed in.                                              *)
(***************************************************************************)
\* checks.rs 38-44.
best_of_str_dex(str_mod, dex_mod) ==
    IF dex_mod > str_mod THEN [ability |-> "Dex", mod |-> dex_mod]
    ELSE [ability |-> "Str", mod |-> str_mod]

\* checks.rs 12-35: the attacker's d20 is drawn first.
contested_check(d20s, att_mod, def_mod) ==
    LET ar == d20s[1]
        dr == d20s[2]
        at == ar + att_mod
        dt == dr + def_mod
    IN  [outcome |-> IF at > dt THEN "AttackerWins"
                     ELSE IF at = dt THEN "TieDefender"
                     ELSE "DefenderWins",
         draws |-> 2, at |-> at, dt |-> dt]

\* combat/actions.rs 15-47 and 61-90: both actions, for their condition.
ContestFor(kind, mods, defender_conds, d20s) ==
    LET def_mod == best_of_str_dex(mods.defender_str_mod,
                                   mods.defender_dex_mod).mod
        c == contested_check(d20s, mods.attacker_str_mod, def_mod)
    IN  IF c.outcome = "AttackerWins"
        THEN [conditions |->
                 IF HasKind(defender_conds, kind) THEN defender_conds
                 ELSE Append(defender_conds, make_active_condition(kind)),
              ret |-> TRUE, draws |-> c.draws, logs |-> 2,
              log |-> <<"contest", "now">>]
        ELSE [conditions |-> defender_conds, ret |-> FALSE,
              draws |-> c.draws, logs |-> 2, log |-> <<"contest", "fails">>]

attempt_grapple(mods, defender_conds, d20s) ==
    ContestFor("Grappled", mods, defender_conds, d20s)

attempt_shove_prone(mods, defender_conds, d20s) ==
    ContestFor("Prone", mods, defender_conds, d20s)

\* The d20 values and the modifiers the contests are run on.
ContestRolls == {1, 9, 10, 11, 12, 20}

ContestMods ==
    [attacker_str_mod : {0, 3}, defender_str_mod : {1, 3},
     defender_dex_mod : {2}]

InitContest ==
    /\ actor_health = HealthNew(MaxHP)
    /\ cfg = [actor_hp |-> MaxHP]
    /\ actor_conditions \in {<<>>, <<make_active_condition("Poisoned")>>}
    /\ enemy_hp = 0
    /\ enemy_conditions = <<>>
    /\ rounds = 0
    /\ actor_turn = FALSE
    /\ pc = "contest_api"
    /\ winner = ""
    /\ call = NoCall
    /\ NoEncounter
    /\ NoBatch

ContestCall(op, r, rolls, mods) ==
    /\ Len(r.conditions) <= MaxConds
    /\ actor_conditions' = r.conditions
    /\ call' = [CalledCond(op, 0, rolls, mods, r) EXCEPT !.ret = r.ret]
    /\ UNCHANGED actor_health
    /\ DuelUnchanged

GrappleCall ==
    /\ pc = "contest_api"
    /\ \E mods \in ContestMods, ar \in ContestRolls, dr \in ContestRolls :
          ContestCall("attempt_grapple",
                      attempt_grapple(mods, actor_conditions, <<ar, dr>>),
                      <<ar, dr>>, mods)

ShoveCall ==
    /\ pc = "contest_api"
    /\ \E mods \in ContestMods, ar \in ContestRolls, dr \in ContestRolls :
          ContestCall("attempt_shove_prone",
                      attempt_shove_prone(mods, actor_conditions, <<ar, dr>>),
                      <<ar, dr>>, mods)

\* conditions.rs 200-223 on the defender: a hit that knocks prone, no save.
ProneOnHitCall ==
    /\ pc = "contest_api"
    /\ Len(actor_conditions) < MaxConds
    /\ LET r == maybe_apply_on_hit_condition(actor_conditions, ProneOnHit, 0,
                                             ActorSaveMods)
       IN  /\ actor_conditions' = r.conditions
           /\ call' = CalledCond("maybe_apply_on_hit_condition", ProneOnHit,
                                 <<>>, ActorSaveMods, r)
    /\ UNCHANGED actor_health
    /\ DuelUnchanged

NextContest ==
    \/ GrappleCall
    \/ ShoveCall
    \/ ProneOnHitCall

SpecContest == InitContest /\ [][NextContest]_vars

(***************************************************************************)
(* SpecRules: a caller of the pure rules, one call per run.  The inputs    *)
(* are drawn at the start (cfg); the call record holds them, the d20s the  *)
(* call drew, and the value returned.                                      *)
(***************************************************************************)
MaxVantageConds == 2

VantageValues == {"Normal", "Advantage", "Disadvantage"}

\* The condition lists are those of at most MaxVantageConds permanent
\* conditions.
RulesInputs ==
    LET lists ==
           UNION {[1..n -> {make_active_condition(k) : k \in ConditionKind}] :
                     n \in 0..MaxVantageConds}
    IN  [fn : {"vantage_from_conditions"}, attacker_conds : lists,
         target_conds : lists, style : {"Melee", "Ranged"}]
       \cup [fn : {"combine"}, self : VantageValues, other : VantageValues]
       \cup [fn : {"attack"}, mode : VantageValues, bonus : {0, 5, 30},
             ac : {13, 30}]
       \cup [fn : {"damage"},
             dice_spec : [count : {0, 1, 2, 127, 128}, sides : {1, 3}],
             modifier : {0 - 3, 0, 2}, crit : BOOLEAN]

InitRules ==
    /\ cfg \in RulesInputs
    /\ actor_health = HealthNew(0)
    /\ actor_conditions = <<>>
    /\ enemy_hp = 0
    /\ enemy_conditions = <<>>
    /\ rounds = 0
    /\ actor_turn = FALSE
    /\ pc = "rules_call"
    /\ winner = ""
    /\ call = NoCall
    /\ NoEncounter
    /\ NoBatch

RulesReturn(ret, rolls) ==
    /\ call' = [NoCall EXCEPT !.op = cfg.fn, !.arg = rolls, !.ret = ret,
                              !.draws = Len(rolls)]
    /\ pc' = "rules_done"
    /\ UNCHANGED <<actor_health, actor_conditions, enemy_hp,
                   enemy_conditions, rounds, actor_turn, cfg, winner,
                   EncounterVars, batch>>

VantageCall ==
    /\ pc = "rules_call"
    /\ cfg.fn = "vantage_from_conditions"
    /\ RulesReturn(vantage_from_conditions(cfg.attacker_conds,
                                           cfg.target_conds, cfg.style),
                   <<>>)

CombineCall ==
    /\ pc = "rules_call"
    /\ cfg.fn = "combine"
    /\ RulesReturn(combine(cfg.self, cfg.other), <<>>)

\* lib.rs 307-328 with Dice::d20 (lib.rs 43-58): one draw under Normal, two
\* otherwise, of which d20 keeps one.
AttackCall ==
    /\ pc = "rules_call"
    /\ cfg.fn = "attack"
    /\ \E a \in D20, b \in D20 :
          /\ cfg.mode = "Normal" => b = a
          /\ RulesReturn(attack(d20(cfg.mode, a, b), cfg.bonus, cfg.ac),
                         IF cfg.mode = "Normal" THEN <<a>> ELSE <<a, b>>)

\* lib.rs 331-333 with DamageDice::roll_total (lib.rs 281-292): the call
\* record holds the sum of the dice in arg and the number of dice drawn.
DamageCall ==
    /\ pc = "rules_call"
    /\ cfg.fn = "damage"
    /\ \E rolled \in roll_total(cfg.dice_spec, cfg.crit) :
          call' = [NoCall EXCEPT
                      !.op = cfg.fn, !.arg = rolled,
                      !.ret = damage(rolled, cfg.modifier),
                      !.draws = roll_total_n(cfg.dice_spec, cfg.crit)]
    /\ pc' = "rules_done"
    /\ UNCHANGED <<actor_health, actor_conditions, enemy_hp,
                   enemy_conditions, rounds, actor_turn, cfg, winner,
                   EncounterVars, batch>>

NextRules ==
    \/ VantageCall
    \/ CombineCall
    \/ AttackCall
    \/ DamageCall

SpecRules == InitRules /\ [][NextRules]_vars

(***************************************************************************)
(* Claims about life.rs, checked under Spec.                               *)
(***************************************************************************)

\* C1: Dead is absorbing: a combatant whose life state is Dead is still
\* Dead after any call of apply_damage, heal, stabilize or
\* process_death_save_start_of_turn, whatever the argument.
C1_DeadIsAbsorbing ==
    [][actor_health.state = Dead => actor_health'.state = Dead]_vars

\* A Dead combatant with hp > 0 (healed after death) that is then hit for
\* at least its hp: the case where only the Dead guard keeps it Dead.
C1_Witness ==
    /\ call.op = "apply_damage"
    /\ call.pre.state = Dead
    /\ call.pre.hp > 0
    /\ call.arg >= call.pre.hp
    /\ actor_health.state = Dead

\* C2 (as claimed): heal on a Dead combatant leaves hp, state and the
\* death-save tally unchanged, for every amount.
C2_HealOnDeadChangesNothing ==
    (call.op = "heal" /\ call.pre.state = Dead) =>
        /\ actor_health.hp = call.pre.hp
        /\ actor_health.state = call.pre.state
        /\ actor_health.death = call.pre.death

\* C3: apply_damage on a Dead combatant is a no-op for every damage value:
\* hp, state, tally and conditions unchanged, nothing logged, returns false.
C3_ApplyDamageOnDeadIsNoop ==
    (call.op = "apply_damage" /\ call.pre.state = Dead) =>
        /\ actor_health = call.pre
        /\ actor_conditions = call.preConds
        /\ call.logs = 0
        /\ call.ret = FALSE

C3_Witness ==
    /\ call.op = "apply_damage"
    /\ call.pre.state = Dead
    /\ call.pre.hp > 0
    /\ call.arg > 0

\* C6 (as claimed): the death-save table, with "adds one success" and "adds
\* one failure" read literally (no saturation except for a roll of 1).
C6_Tallied(succ, fail) ==
    /\ actor_health.death = [successes |-> succ, failures |-> fail]
    /\ actor_health.hp = 0
    /\ actor_health.state =
          IF fail >= 3 THEN Dead
          ELSE IF succ >= 3 THEN Unconscious(TRUE)
          ELSE Unconscious(FALSE)

C7_DeathSaveOnlyWhenQualifying ==
    call.op = "death_save" =>
        IF call.pre.state = Unconscious(FALSE) /\ call.pre.hp = 0
        THEN call.draws = 1 /\ call.ret = "Some"
        ELSE /\ call.draws = 0
             /\ call.ret = "None"
             /\ actor_health = call.pre

\* A stabilised combatant at 0 HP whose death save was skipped.
C7_Witness ==
    /\ call.op = "death_save"
    /\ call.pre.state = Unconscious(TRUE)
    /\ call.pre.hp = 0
    /\ call.ret = "None"

\* C8: heal with amount > 0 on an Unconscious combatant whose resulting hp
\* is > 0 wakes it (Conscious), resets the tally to (0,0) and sets
\* hp = min(hp + amount, max_hp); heal with amount <= 0 changes nothing.
C8_HealWakesAndResets ==
    call.op = "heal" =>
        LET hp1 == IF call.pre.hp + call.arg <= call.pre.max_hp
                   THEN call.pre.hp + call.arg ELSE call.pre.max_hp
        IN  /\ call.arg <= 0 => actor_health = call.pre
            /\ (call.arg > 0 /\ call.pre.state.tag = "Unconscious" /\ hp1 > 0) =>
                  /\ actor_health.state = Conscious
                  /\ actor_health.death = [successes |-> 0, failures |-> 0]
                  /\ actor_health.hp = hp1

\* An unconscious combatant with a non-empty tally is healed and wakes.
C8_Witness ==
    /\ call.op = "heal"
    /\ call.arg > 0
    /\ call.pre.state.tag = "Unconscious"
    /\ call.pre.death.failures = 2
    /\ call.pre.death.successes = 1
    /\ actor_health.state = Conscious

\* C9: stabilize on Unconscious{stable:false} sets Unconscious{stable:true}
\* and leaves hp and the tally unchanged; on a Conscious or Dead combatant
\* it changes nothing; and a combatant becomes Unconscious{stable:false}
\* (the only state in which a death save is rolled) only by an apply_damage
\* call that reports a drop, so after stabilize no death save is rolled
\* until the combatant drops again.
C9_StabilizeFrame ==
    /\ call.op = "stabilize" =>
          /\ actor_health.hp = call.pre.hp
          /\ actor_health.death = call.pre.death
          /\ actor_health.max_hp = call.pre.max_hp
          /\ call.pre.state = Unconscious(FALSE) =>
                actor_health.state = Unconscious(TRUE)
          /\ call.pre.state \in {Conscious, Dead} =>
                actor_health.state = call.pre.state
    /\ (call.op = "death_save" /\ call.draws > 0) =>
          call.pre.state = Unconscious(FALSE)

C9_Stabilize ==
    /\ []C9_StabilizeFrame
    /\ [][(actor_health.state # Unconscious(FALSE)
             /\ actor_health'.state = Unconscious(FALSE))
            => (call'.op = "apply_damage" /\ call'.ret = TRUE)]_vars

\* A stabilised combatant with failures on its tally: it did not wake.
C9_Witness ==
    /\ call.op = "stabilize"
    /\ call.pre.state = Unconscious(FALSE)
    /\ call.pre.death.failures = 2
    /\ actor_health.state = Unconscious(TRUE)
    /\ actor_health.hp = 0


(***************************************************************************)
(* Claims about a running duel, checked under SpecDuel.                    *)
(***************************************************************************)

\* C4 (as claimed): in every reachable state of a duel no combatant's
\* condition list holds two ActiveCondition records of the same kind.
C4_NoDuplicateKinds ==
    \A kind \in ConditionKind :
        /\ CountKind(actor_conditions, kind) <= 1
        /\ CountKind(enemy_conditions, kind) <= 1

\* C5 (as claimed): apply_damage on a non-Dead combatant sets
\* hp = max(0, hp - dmg); it returns true exactly when hp was > 0 before and
\* is 0 after, and then the state is Unconscious{stable:false} and the list
\* holds exactly one Prone record, added only if none was present; in every
\* other case the state is unchanged and the call returns false.
C5_ApplyDamageContract ==
    (call.op = "apply_damage" /\ call.pre.state # Dead) =>
        LET dropped == call.pre.hp > 0 /\ actor_health.hp = 0
        IN  /\ actor_health.hp =
                  (IF call.pre.hp - call.arg >= 0
                   THEN call.pre.hp - call.arg ELSE 0)
            /\ call.ret = dropped
            /\ dropped =>
                  /\ actor_health.state = Unconscious(FALSE)
                  /\ CountKind(actor_conditions, "Prone") = 1
                  /\ actor_conditions =
                        IF CountKind(call.preConds, "Prone") > 0
                        THEN call.preConds
                        ELSE Append(call.preConds,
                                    make_active_condition("Prone"))
            /\ ~dropped =>
                  /\ actor_health.state = call.pre.state
                  /\ actor_conditions = call.preConds

\* C10 (as claimed): in every reachable state of a simulation every
\* combatant's HP is >= 0 and both death-save counters are within 0..3.
C10_HpAndTallyInRange ==
    /\ actor_health.hp >= 0
    /\ enemy_hp >= 0
    /\ actor_health.death.successes \in 0..3
    /\ actor_health.death.failures \in 0..3

\* C11: every duel terminates within the round cap.  Each step of
\* simulate_duel strictly increases a measure that is bounded (the round
\* counter, then the position inside the round), the counter never exceeds
\* 30, and the loop is left for the result exactly when the guard of the
\* round loop or the break after a turn says so: the result is reached
\* after at most 30 iterations of the round loop, whatever the dice give.
C11_Rank(p) ==
    CASE p = "initiative" -> 0
      [] p \in {"actor_death_save", "enemy_start"} -> 1
      [] p \in {"actor_start", "enemy_attack"} -> 2
      [] p \in {"actor_action", "enemy_on_hit"} -> 3
      [] p \in {"actor_end", "enemy_end"} -> 4
      [] p = "round_end" -> 5
      [] p = "round_top" -> 6
      [] p = "finish" -> 7
      [] p = "done" -> 8

C11_Measure(r, p) == r * 9 + C11_Rank(p)

C11_DuelTerminates ==
    /\ [](rounds \in 0..30)
    /\ [](C11_Measure(rounds, pc) <= 30 * 9 + 8)
    /\ [][C11_Measure(rounds', pc') > C11_Measure(rounds, pc)]_vars
    /\ [][rounds' \in {rounds, rounds + 1}]_vars

\* The duel that ends at the cap: the actor was stabilised by its death
\* saves and lies unconscious while the enemy stands.
C11_Witness ==
    /\ pc = "done"
    /\ rounds = 30
    /\ actor_health.state = Unconscious(TRUE)
    /\ enemy_hp > 0

\* C13 (as claimed): the winner follows from the terminal state: enemy HP
\* <= 0 and actor HP > 0 is an actor win; actor Dead or at HP <= 0 while the
\* enemy has HP > 0 is an enemy win; both at HP <= 0 is a draw (mutual KO);
\* the round cap reached with both above 0 HP is inconclusive, a win for
\* neither side.  C13_Engine states it of the winner simulate_duel returns,
\* C13_Cli of the result line the duel command prints.
C13_Engine ==
    pc = "done" =>
        /\ (enemy_hp <= 0 /\ actor_health.hp > 0) => winner = "actor"
        /\ ((actor_health.state = Dead \/ actor_health.hp <= 0)
               /\ enemy_hp > 0) => winner = "enemy"
        /\ (enemy_hp <= 0 /\ actor_health.hp <= 0) => winner = "draw"
        /\ (rounds = 30 /\ enemy_hp > 0 /\ actor_health.hp > 0) =>
              winner = "draw"

C13_Cli ==
    pc = "done" =>
        LET result == cli_duel_result(actor_health, enemy_hp)
        IN  /\ (enemy_hp <= 0 /\ actor_health.hp > 0) =>
                  result = "Actor defeats target"
            /\ ((actor_health.state = Dead \/ actor_health.hp <= 0)
                   /\ enemy_hp > 0) => result = "target defeats Actor"
            /\ (enemy_hp <= 0 /\ actor_health.hp <= 0) =>
                  result = "Mutual KO"
            /\ (rounds = 30 /\ enemy_hp > 0 /\ actor_health.hp > 0) =>
                  result = "Max rounds reached"

C13_WinnerDetermination == C13_Engine /\ C13_Cli

\* C14: on each of its turns the actor's steps come in the order death
\* save attempt, start-of-turn boundary, action, end-of-turn boundary (the
\* death save rolls only for an actor Unconscious{stable:false} at 0 HP); an
\* actor that is Unconscious or Dead after the start-of-turn steps makes no
\* attack roll and deals no damage that turn; and the enemy attacks only
\* while its HP is > 0.
C14_NewCall == call'.op # call.op \/ call'.who # call.who

C14_Boundary(c, who, phase) ==
    c.op = "process_turn_boundary" /\ c.who = who /\ c.arg = phase

C14_ActorActs(c) == c.op \in {"attack", "skip_action"} /\ c.who = "enemy"

C14_EnemyActs(c) ==
    \/ c.op \in {"apply_damage", "maybe_apply_on_hit_condition"}
    \/ c.op = "attack" /\ c.who = "actor"

C14_ActorTurnOrder ==
    /\ [][C14_NewCall =>
            /\ call'.op = "death_save" =>
                  (call.op = "initiative"
                     \/ C14_Boundary(call, "enemy", "EndOfTurn"))
            /\ C14_Boundary(call', "actor", "StartOfTurn") <=>
                  call.op = "death_save"
            /\ C14_ActorActs(call') <=>
                  C14_Boundary(call, "actor", "StartOfTurn")
            /\ C14_Boundary(call', "actor", "EndOfTurn") <=> C14_ActorActs(call)
            /\ call'.op = "death_save" =>
                  (call'.draws = 1 <=>
                      (actor_health.state = Unconscious(FALSE)
                         /\ actor_health.hp = 0))
            /\ C14_ActorActs(call') =>
                  IF actor_health.state = Conscious
                  THEN call'.op = "attack" /\ call'.draws >= 1
                  ELSE /\ call'.op = "skip_action"
                       /\ call'.draws = 0
                       /\ enemy_hp' = enemy_hp
            /\ C14_EnemyActs(call') => enemy_hp > 0]_vars
    /\ [][enemy_hp' # enemy_hp =>
            /\ actor_health.state = Conscious
            /\ call'.op = "attack" /\ call'.who = "enemy"
            /\ call'.ret = TRUE]_vars

\* An unconscious actor whose action was skipped while the enemy stands.
C14_Witness ==
    /\ call.op = "skip_action"
    /\ actor_health.state = Unconscious(FALSE)
    /\ actor_health.hp = 0
    /\ enemy_hp > 0

\* C20: before round 1 both sides roll one Normal d20 plus dexterity
\* modifier; the actor takes the first turn iff actor_init >= enemy_init;
\* afterwards turns strictly alternate, exactly one combatant acting per
\* counted round.
C20_ActorTurnCall(c) ==
    \/ c.op \in {"death_save", "skip_action"}
    \/ c.op = "process_turn_boundary" /\ c.who = "actor"
    \/ c.op = "attack" /\ c.who = "enemy"

C20_EnemyTurnCall(c) ==
    \/ c.op \in {"apply_damage", "maybe_apply_on_hit_condition"}
    \/ c.op = "process_turn_boundary" /\ c.who = "enemy"
    \/ c.op = "attack" /\ c.who = "actor"

C20_TurnStart(c) ==
    \/ c.op = "death_save"
    \/ c.op = "process_turn_boundary" /\ c.who = "enemy"
          /\ c.arg = "StartOfTurn"

C20_NewCall == call'.op # call.op \/ call'.who # call.who

C20_InitiativeAndAlternation ==
    /\ [](call.round \in {rounds, rounds - 1})
    /\ [][(C20_NewCall /\ call'.op = "initiative") =>
            /\ call.op = "none" /\ rounds = 0 /\ call'.round = 0
            /\ call'.draws = 2
            /\ call'.arg[1] - ability_mod(sample_fighter.abilities["Dex"])
                  \in 1..20
            /\ call'.arg[2] - cfg.target.dex_mod \in 1..20
            /\ actor_turn' = (call'.arg[1] >= call'.arg[2])]_vars
    /\ [][(C20_NewCall /\ call.op = "initiative") =>
            /\ call'.round = 1
            /\ C20_TurnStart(call')
            /\ call'.op = "death_save" <=> call.arg[1] >= call.arg[2]]_vars
    /\ [][(C20_NewCall /\ call.op \notin {"none", "initiative"}) =>
            IF C20_TurnStart(call')
            THEN /\ call'.round = call.round + 1
                 /\ C20_ActorTurnCall(call') <=> C20_EnemyTurnCall(call)
                 /\ C20_EnemyTurnCall(call') <=> C20_ActorTurnCall(call)
            ELSE /\ call'.round = call.round
                 /\ C20_ActorTurnCall(call') <=> C20_ActorTurnCall(call)
                 /\ C20_EnemyTurnCall(call') <=> C20_EnemyTurnCall(call)]_vars

\* The actor opens round 2: the enemy won the initiative and took round 1.
C20_Witness ==
    /\ call.op = "death_save"
    /\ call.round = 2
    /\ rounds = 2
    /\ actor_turn

(***************************************************************************)
(* C16 (SpecCond): process_turn_boundary evaluates save-ends before phase  *)
(* expiry.  At EndOfTurn every condition with save_ends_each_turn and a    *)
(* stored save gets exactly one saving throw, in list order, with its own  *)
(* ability and DC; the conditions whose total reaches the DC are removed   *)
(* (messages "no longer") before any pending one-turn EndOfTurn condition  *)
(* is removed (messages "ends at"); the list left is the old one without   *)
(* both.  At StartOfTurn no saving throw is rolled.                        *)
(***************************************************************************)
C16_Saving(pre) ==
    {i \in 1..Len(pre) : pre[i].save_ends_each_turn /\ pre[i].end_save # None}

\* The k-th smallest index of S.
C16_Kth(S, k) == CHOOSE i \in S : Cardinality({j \in S : j <= i}) = k

C16_Events(log, ev) == {i \in 1..Len(log) : log[i].ev = ev}

C16_Without(s, S) ==
    LET keep == {i \in 1..Len(s) : i \notin S}
    IN  [k \in 1..Cardinality(keep) |-> s[C16_Kth(keep, k)]]

C16_SaveEndsBeforeExpiry ==
    call.op = "process_turn_boundary" =>
        LET pre    == call.preConds
            log    == call.log
            saving == C16_Saving(pre)
            n      == Cardinality(saving)
            won    == {C16_Kth(saving, k) : k \in
                         {j \in 1..n : call.rolls[j]
                               + call.mods[pre[C16_Kth(saving, j)].end_save.ability]
                               >= pre[C16_Kth(saving, j)].end_save.dc}}
            rest   == C16_Without(pre, won)
            ended  == {i \in 1..Len(rest) :
                          rest[i].pending_one_turn
                              /\ rest[i].end_phase = "EndOfTurn"}
        IN  /\ call.arg = "StartOfTurn" =>
                 /\ call.draws = 0
                 /\ call.rolls = <<>>
                 /\ C16_Events(log, "SAVE") = {}
                 /\ C16_Events(log, "no_longer") = {}
            /\ call.arg = "EndOfTurn" =>
                 /\ call.draws = n
                 /\ Len(call.rolls) = n
                 /\ C16_Events(log, "SAVE") = 1..n
                 /\ \A k \in 1..n :
                       LET c == pre[C16_Kth(saving, k)]
                       IN  /\ log[k].kind = c.kind
                           /\ log[k].ability = c.end_save.ability
                           /\ log[k].dc = c.end_save.dc
                           /\ log[k].roll = call.rolls[k]
                 /\ C16_Events(log, "no_longer")
                        = (n + 1)..(n + Cardinality(won))
                 /\ C16_Events(log, "ends")
                        = (n + Cardinality(won) + 1)
                              ..(n + Cardinality(won) + Cardinality(ended))
                 /\ Len(log) = n + Cardinality(won) + Cardinality(ended)
                 /\ actor_conditions = C16_Without(rest, ended)

\* An EndOfTurn call that rolled a save, removed a condition by that save
\* and then a one-turn condition by expiry.
C16_Witness ==
    /\ call.op = "process_turn_boundary"
    /\ call.arg = "EndOfTurn"
    /\ call.draws = 1
    /\ Len(call.log) = 3
    /\ call.log[1].ev = "SAVE"
    /\ call.log[2].ev = "no_longer"
    /\ call.log[3].ev = "ends"

(***************************************************************************)
(* C17 (SpecCond): a condition with save_ends_each_turn and a stored save  *)
(* of DC 0 is gone after the first EndOfTurn boundary call, for every d20  *)
(* roll and every save modifier of the bearer.                             *)
(***************************************************************************)
C17_DcZero(c) ==
    c.save_ends_each_turn /\ c.end_save # None /\ c.end_save.dc = 0

C17_Count(conds, c) == Cardinality({i \in 1..Len(conds) : conds[i] = c})

C18_Other(phase) == IF phase = "StartOfTurn" THEN "EndOfTurn" ELSE "StartOfTurn"

C18_OneTurn(c, phase) == c.pending_one_turn /\ c.end_phase = phase

C18_OnlyApplicationAdds ==
    [][\A i \in 1..Len(actor_conditions') :
          C17_Count(actor_conditions', actor_conditions'[i])
              > C17_Count(actor_conditions, actor_conditions'[i])
          => call'.op = "maybe_apply_on_hit_condition"]_vars

C18_RemovedAtItsPhase ==
    call.op = "process_turn_boundary" =>
        \A i \in 1..Len(call.preConds) :
           C18_OneTurn(call.preConds[i], call.arg)
              => C17_Count(actor_conditions, call.preConds[i]) = 0

C19_OnHitApplication ==
    call.op = "maybe_apply_on_hit_condition" =>
        LET spec  == call.arg
            built == [kind |-> spec.kind,
                      save_ends_each_turn |-> spec.duration.save_ends_each_turn,
                      end_phase |-> spec.duration.until,
                      end_save |-> spec.save,
                      pending_one_turn |-> spec.duration.until
                                              \in {"StartOfTurn", "EndOfTurn"}]
        IN  IF spec.save = None
            THEN /\ call.draws = 0
                 /\ C16_Events(call.log, "SAVE") = {}
                 /\ actor_conditions = Append(call.preConds, built)
            ELSE /\ call.draws = 1
                 /\ C16_Events(call.log, "SAVE") = {1}
                 /\ call.log[1].ability = spec.save.ability
                 /\ call.log[1].dc = spec.save.dc
                 /\ call.log[1].roll = call.rolls[1]
                 /\ call.log[1].total
                       = call.rolls[1] + call.mods[spec.save.ability]
                 /\ actor_conditions
                       = IF call.rolls[1] + call.mods[spec.save.ability]
                              >= spec.save.dc
                         THEN call.preConds
                         ELSE Append(call.preConds, built)

\* A failed resisting save that put a save-ends one-turn condition in the
\* list.
C19_Witness ==
    /\ call.op = "maybe_apply_on_hit_condition"
    /\ call.draws = 1
    /\ ~call.log[1].success
    /\ Len(actor_conditions) = Len(call.preConds) + 1
    /\ actor_conditions[Len(actor_conditions)].pending_one_turn
    /\ actor_conditions[Len(actor_conditions)].save_ends_each_turn

(***************************************************************************)
(* C12 (SpecEncounter): once the actor is Dead or every enemy is at 0 HP   *)
(* or below, no further participant takes a turn: no entry of the round is *)
(* dispatched to a turn, and every library call still made belongs to the  *)
(* turn that was under way, in the same round.  This holds in the middle   *)
(* of a round as well.                                                     *)
(***************************************************************************)
C12_Defeated == actor_health.state = Dead \/ enemies_defeated(enemies)

C12_TurnBegins ==
    pc = "enc_entry" /\ pc' \in {"enc_death_save", "enc_enemy_start"}

C12_NoTurnAfterDefeat ==
    /\ [][C12_Defeated => ~C12_TurnBegins]_vars
    /\ [][C12_Defeated =>
            /\ call.op # "none"
            /\ call'.turn = call.turn
            /\ call'.round = call.round]_vars

\* The actor died on its turn in the middle of a round: the next entry of
\* the order is an enemy still standing, and the run has ended.
C12_Witness ==
    /\ pc = "enc_done"
    /\ actor_health.state = Dead
    /\ call.turn = 0
    /\ entry <= Len(initiative)
    /\ initiative[entry].kind = 1
    /\ enemies[initiative[entry].index].hp > 0

(***************************************************************************)
(* C15 (SpecEncounter): an actor who is Unconscious{stable:false} at 0 HP  *)
(* rolls a death save at the start of each of its turns, and the encounter *)
(* keeps running while the actor is unconscious and not Dead: it does not  *)
(* end with the actor Unconscious{stable:false} unless every enemy is      *)
(* defeated or the round cap is reached.                                   *)
(***************************************************************************)
C15_CapReached ==
    IF IsCli THEN rounds > cfg.max_rounds ELSE rounds >= MAX_ROUNDS * 4

C15_DeathSavesInEncounter ==
    /\ (call.op = "death_save" /\ Qualifies(call.pre)) => call.draws = 1
    /\ (pc = "enc_finish" /\ actor_health.state = Unconscious(FALSE)) =>
          (enemies_defeated(enemies) \/ C15_CapReached)

(***************************************************************************)
(* C21 (SpecEncounter): in an encounter the first thing rolled is the      *)
(* initiative, one d20 for the actor and one for each enemy, once; the     *)
(* order of the turns is the entries sorted by total descending, then raw  *)
(* roll descending, then actor before enemies, then enemy index ascending; *)
(* the order never changes afterwards and in every round the turns are     *)
(* taken along it.                                                         *)
(***************************************************************************)
C21_Entry(entries, o) ==
    CHOOSE k \in 1..Len(entries) :
        entries[k].kind = o.kind /\ entries[k].index = o.index

C21_InOrder(a, b) ==
    \/ a.total > b.total
    \/ a.total = b.total /\ a.roll > b.roll
    \/ a.total = b.total /\ a.roll = b.roll /\ a.kind < b.kind
    \/ a.total = b.total /\ a.roll = b.roll /\ a.kind = b.kind
          /\ a.index < b.index

C21_Position(turn) ==
    CHOOSE k \in 1..Len(initiative) :
        initiative[k].index = turn /\ initiative[k].kind = IF turn = 0 THEN 0 ELSE 1

C21_RolledAndSorted ==
    call.op = "initiative" =>
        /\ call.draws = 1 + Len(enemies)
        /\ Len(call.arg) = 1 + Len(enemies)
        /\ Len(initiative) = 1 + Len(enemies)
        /\ \A k \in 1..Len(call.arg) :
              \E j \in 1..Len(initiative) :
                 /\ initiative[j].kind = call.arg[k].kind
                 /\ initiative[j].index = call.arg[k].index
        /\ \A j \in 1..(Len(initiative) - 1) :
              C21_InOrder(call.arg[C21_Entry(call.arg, initiative[j])],
                          call.arg[C21_Entry(call.arg, initiative[j + 1])])

C21_InitiativeOrder ==
    /\ [](C21_RolledAndSorted)
    /\ [][(call.op = "none" /\ call'.op # "none")
             => (call'.op = "initiative" /\ rounds' <= 1)]_vars
    /\ [][(call.op # "initiative" /\ call'.op = "initiative")
             => call.op = "none"]_vars
    /\ [][call.op # "none" => initiative' = initiative]_vars
    /\ [][(/\ call.op # "none"
           /\ call'.turn >= 0
           /\ (call'.turn # call.turn \/ call'.round # call.round))
             => /\ initiative[entry].index = call'.turn
                /\ (call.turn >= 0 /\ call.round = call'.round)
                      => C21_Position(call.turn) < C21_Position(call'.turn)]_vars

(***************************************************************************)
(* C22 (SpecEncounter): in an encounter whose focus is "lowest", every     *)
(* attack of the actor is on an enemy that is alive (HP > 0) and has the   *)
(* lowest HP of the enemies alive at that moment, the lowest index among   *)
(* equals; a defeated enemy is never attacked.                             *)
(***************************************************************************)
C22_Focus == IF IsCli THEN focus_strategy ELSE cfg.file_focus

C22_LowestFocus ==
    [][(/\ C22_Focus = "lowest"
        /\ pc = "enc_actor_action"
        /\ call'.op = "attack")
          => LET t == call'.who
             IN  /\ enemies[t].hp > 0
                 /\ \A j \in 1..Len(enemies) :
                       enemies[j].hp > 0 =>
                          \/ enemies[t].hp < enemies[j].hp
                          \/ enemies[t].hp = enemies[j].hp /\ t <= j]_vars

(***************************************************************************)
(* C23 (SpecEncounter): with the auto-potion option, the actor is healed   *)
(* by 7 (up to max_hp, waking up with the death-save tally reset) in the   *)
(* very step of the first apply_damage call that reports a drop to 0 HP,   *)
(* and the potion is then used up: a later drop to 0 HP heals nothing.     *)
(* Without the option, and in every other step of the round loop but a     *)
(* death save rolling 20, the actor's HP never goes up.                    *)
(***************************************************************************)
C23_DamageStep == pc = "enc_enemy_attack" /\ call'.op = "apply_damage"

C23_AutoPotionOnce ==
    /\ [](auto_potion_left => (IsCli /\ cfg.auto_potion))
    /\ [][C23_DamageStep =>
            IF call'.ret /\ auto_potion_left
            THEN /\ actor_health'.hp = Min(7, actor_health.max_hp)
                 /\ actor_health'.state = Conscious
                 /\ actor_health'.death = DeathSavesDefault
                 /\ ~auto_potion_left'
            ELSE /\ actor_health'.hp = Max(actor_health.hp - call'.arg, 0)
                 /\ call'.ret => actor_health'.state = Unconscious(FALSE)
                 /\ auto_potion_left' = auto_potion_left]_vars
    /\ [][~C23_DamageStep =>
            /\ auto_potion_left' = auto_potion_left
            /\ (pc # "enc_finish" /\ actor_health'.hp > actor_health.hp)
                  => (pc = "enc_death_save" /\ actor_health'.hp = 1)]_vars

\* The potion was drunk at the first drop and the actor has dropped again:
\* this time the actor stays at 0 HP.
C23_Witness ==
    /\ cfg.impl = "cli"
    /\ cfg.auto_potion
    /\ ~auto_potion_left
    /\ call.op = "apply_damage"
    /\ call.ret = TRUE
    /\ call.pre.hp > 0
    /\ actor_health.hp = 0
    /\ actor_health.state = Unconscious(FALSE)

(***************************************************************************)
(* Claims about simulate_duel_many and the set-up of simulate_duel,        *)
(* checked under SpecMany.                                                 *)
(***************************************************************************)

\* base + i on u64, written out for the seeds in use: one step past
\* u64::MAX is 0.
C25_Seed(base, i) ==
    IF base = U64Max THEN (IF i = 0 THEN U64Max ELSE U64(i - 1))
    ELSE U64(base[1] + i)

C25_InDuel ==
    pc \notin {"many_loop", "duel_setup", "many_done", "many_error"}

C25_Counted == batch.actor_wins + batch.enemy_wins + batch.draws

\* C25 (SpecMany): simulate_duel_many(cfg, N) is the tally of N duels run
\* one after the other.  Sample i runs on the configuration with seed
\* base + i (wrapping on u64) and starts from the state a duel run alone
\* starts from; the duel does not touch the tally; each finished duel adds
\* one to the count of its own winner and its rounds to the sum; the
\* result has samples = N and actor_wins + enemy_wins + draws = N.
C25_BatchIsTally ==
    /\ [](C25_InDuel => /\ batch.i < batch.samples
                        /\ cfg.seed = C25_Seed(batch.cfg.seed, batch.i))
    /\ [](pc = "initiative" =>
             /\ actor_health = HealthNew(batch.cfg.actor_hp.value)
             /\ enemy_hp = cfg.target.hp
             /\ actor_conditions = <<>>
             /\ enemy_conditions = <<>>
             /\ rounds = 0
             /\ winner = ""
             /\ call.op = "none")
    /\ [](C25_Counted = batch.i)
    /\ [][C25_InDuel /\ pc # "done" => batch' = batch]_vars
    /\ [][pc = "done" =>
            /\ batch'.i = batch.i + 1
            /\ batch'.sum_rounds = batch.sum_rounds + rounds
            /\ batch'.actor_wins =
                  batch.actor_wins + (IF winner = "actor" THEN 1 ELSE 0)
            /\ batch'.enemy_wins =
                  batch.enemy_wins + (IF winner = "enemy" THEN 1 ELSE 0)
            /\ batch'.draws =
                  batch.draws + (IF winner = "draw" THEN 1 ELSE 0)]_vars
    /\ [](pc = "many_done" =>
             /\ batch.result.ok
             /\ batch.i = batch.samples
             /\ batch.result.value.samples = batch.samples
             /\ batch.result.value.actor_wins + batch.result.value.enemy_wins
                   + batch.result.value.draws = batch.samples
             /\ batch.result.value.actor_wins = batch.actor_wins
             /\ batch.result.value.enemy_wins = batch.enemy_wins
             /\ batch.result.value.draws = batch.draws)

\* Two samples were run, the second on the seed that wrapped around to 0,
\* and each side won one of them.
C25_Witness ==
    /\ pc = "many_done"
    /\ batch.samples = 2
    /\ batch.cfg.seed = U64Max
    /\ cfg.seed = U64(0)
    /\ batch.result.value.actor_wins = 1
    /\ batch.result.value.enemy_wins = 1

\* The content a configuration names: the file at the path if it can be
\* read, else the built-in of that id, else nothing.
C26_Content(path, id, map) ==
    IF path \in DOMAIN Files THEN Files[path]
    ELSE IF id \in DOMAIN map THEN map[id]
    ELSE [kind |-> "garbage"]

C26_ConfigError(run) ==
    LET target == C26_Content(run.target_path, run.target_id,
                              builtin_targets)
        weapons == C26_Content(run.weapons_path, run.weapons_id,
                               builtin_weapons)
    IN  \/ target.kind # "target"
        \/ weapons.kind # "weapons"
        \/ target.attacks = <<>>
        \/ \A k \in 1..Len(weapons.weapons) :
              to_ascii_lowercase(weapons.weapons[k].name)
                 # to_ascii_lowercase(run.weapon)

\* C26 (SpecMany): a configuration error (content that cannot be loaded or
\* parsed, a target without attacks, a weapon name the list does not have)
\* makes simulate_duel fail in its set-up, and only such an error does: the
\* error is the result, it carries no log, and up to it no library call
\* was made, so no die was drawn and no log line of a call was written.
C26_ErrorBeforeDice ==
    /\ [](pc = "many_error" =>
             /\ ~batch.result.ok
             /\ DOMAIN batch.result = {"ok", "error"}
             /\ C26_ConfigError(batch.cfg)
             /\ batch.i = 0
             /\ rounds = 0
             /\ call.op = "none"
             /\ call.draws = 0
             /\ call.logs = 0)
    /\ [][pc = "duel_setup" =>
             (pc' = "many_error" <=> C26_ConfigError(batch.cfg))]_vars
    /\ [][pc' = "many_error" => pc = "duel_setup"]_vars
    /\ [][pc = "many_error" => UNCHANGED vars]_vars

\* The weapon list has no weapon of the configured name.
C26_Witness ==
    /\ pc = "many_error"
    /\ batch.result.error = "weapon not found"
    /\ batch.cfg.weapon = "halberd"

(***************************************************************************)
(* Claims about combat/actions.rs, checked under SpecContest.              *)
(***************************************************************************)
C29_Kind == IF call.op = "attempt_grapple" THEN "Grappled" ELSE "Prone"

C29_Wins ==
    call.rolls[1] + call.mods.attacker_str_mod
       > call.rolls[2] + Max(call.mods.defender_str_mod,
                             call.mods.defender_dex_mod)

\* C29 (SpecContest): attempt_grapple and attempt_shove_prone draw exactly
\* two d20s, the attacker's first, and return true exactly when the
\* attacker's d20 + STR modifier is strictly greater than the defender's
\* d20 + max(STR modifier, DEX modifier).  After a success the defender
\* holds exactly one record of the condition, and none was added if one
\* was present; after a failure the list is the one before the call.
C29_ContestOutcome ==
    call.op \in {"attempt_grapple", "attempt_shove_prone"} =>
       /\ call.draws = 2
       /\ Len(call.rolls) = 2
       /\ call.ret = C29_Wins
       /\ (C29_Wins =>
             (/\ CountKind(actor_conditions, C29_Kind) = 1
              /\ actor_conditions =
                    (IF HasKind(call.preConds, C29_Kind) THEN call.preConds
                     ELSE Append(call.preConds,
                                 make_active_condition(C29_Kind)))))
       /\ (~C29_Wins => actor_conditions = call.preConds)

(***************************************************************************)
(* Claims about the pure rules, checked under SpecRules.                   *)
(***************************************************************************)
C27_AttackerDisadvantage ==
    IF \E i \in 1..Len(cfg.attacker_conds) :
          cfg.attacker_conds[i].kind \in {"Poisoned", "Restrained"}
    THEN 1 ELSE 0

\* The target's conditions that contribute the given polarity.
C27_TargetSources(polarity) ==
    Cardinality({i \in 1..Len(cfg.target_conds) :
        \/ /\ cfg.target_conds[i].kind = "Restrained"
           /\ polarity = "Advantage"
        \/ /\ cfg.target_conds[i].kind = "Prone"
           /\ polarity = (IF cfg.style = "Melee" THEN "Advantage"
                          ELSE "Disadvantage")})

C27_Adv == C27_TargetSources("Advantage")

C27_Dis == C27_AttackerDisadvantage + C27_TargetSources("Disadvantage")

\* C27 (SpecRules): vantage_from_conditions follows the per-condition rules.
\* A Poisoned or Restrained attacker is a source of Disadvantage, a
\* Restrained target a source of Advantage, a Prone target a source of
\* Advantage to a Melee attack and of Disadvantage to a Ranged one.  Without
\* a source the result is Normal, with sources of one polarity only it is
\* that polarity, and with one source of each it is Normal.
C27_VantageRules ==
    call.op = "vantage_from_conditions" =>
       /\ (C27_Adv = 0 /\ C27_Dis = 0) => call.ret = "Normal"
       /\ (C27_Adv > 0 /\ C27_Dis = 0) => call.ret = "Advantage"
       /\ (C27_Adv = 0 /\ C27_Dis > 0) => call.ret = "Disadvantage"
       /\ (C27_Adv = 1 /\ C27_Dis = 1) => call.ret = "Normal"

\* A ranged attack on a target that is Prone and Restrained: one source of
\* each polarity, and the result is Normal.
C27_Witness ==
    /\ call.op = "vantage_from_conditions"
    /\ cfg.style = "Ranged"
    /\ cfg.attacker_conds = <<>>
    /\ HasKind(cfg.target_conds, "Prone")
    /\ HasKind(cfg.target_conds, "Restrained")
    /\ call.ret = "Normal"

\* C28 (SpecRules): Vantage::combine is commutative; Advantage with
\* Disadvantage is Normal in either order; Normal with X is X; a polarity
\* with itself is that polarity.
C28_CombineAlgebra ==
    call.op = "combine" =>
       /\ call.ret = combine(cfg.other, cfg.self)
       /\ {cfg.self, cfg.other} = {"Advantage", "Disadvantage"}
             => call.ret = "Normal"
       /\ cfg.self = "Normal" => call.ret = cfg.other
       /\ cfg.other = "Normal" => call.ret = cfg.self
       /\ cfg.self = cfg.other => call.ret = cfg.self

\* Disadvantage combined with Advantage gave Normal.
C28_Witness ==
    /\ call.op = "combine"
    /\ cfg.self = "Disadvantage"
    /\ cfg.other = "Advantage"
    /\ call.ret = "Normal"

\* The die an attack keeps of the d20s it drew.
C30_Kept ==
    IF cfg.mode = "Normal" THEN call.arg[1]
    ELSE IF cfg.mode = "Advantage"
    THEN (IF call.arg[1] >= call.arg[2] THEN call.arg[1] ELSE call.arg[2])
    ELSE (IF call.arg[1] <= call.arg[2] THEN call.arg[1] ELSE call.arg[2])

\* C30 (SpecRules): attack returns hit = nat20 or (not nat1 and total >= ac)
\* with total = kept roll + bonus, and nat20 / nat1 say whether the kept d20
\* is 20 / 1: a 20 that Disadvantage discards is no natural 20, a 20 that
\* Advantage keeps is one.
C30_AttackFlags ==
    call.op = "attack" =>
       /\ Len(call.arg) = (IF cfg.mode = "Normal" THEN 1 ELSE 2)
       /\ call.ret.roll = C30_Kept
       /\ call.ret.total = C30_Kept + cfg.bonus
       /\ call.ret.nat20 = (C30_Kept = 20)
       /\ call.ret.nat1 = (C30_Kept = 1)
       /\ call.ret.hit =
             (call.ret.nat20 \/ (~call.ret.nat1 /\ call.ret.total >= cfg.ac))

\* Under Disadvantage a 20 was drawn and discarded: no natural 20, and the
\* attack misses although the discarded die would have hit.
C30_Witness ==
    /\ call.op = "attack"
    /\ cfg.mode = "Disadvantage"
    /\ call.arg = <<20, 7>>
    /\ cfg.bonus = 0
    /\ cfg.ac = 13
    /\ ~call.ret.nat20
    /\ ~call.ret.hit


(***************************************************************************)
(* Claims about damage, checked under SpecRules.                           *)
(***************************************************************************)
DamageReturned == pc = "rules_done" /\ call.op = "damage"

\* C31: damage draws exactly count dice (2 * count on a crit: the count is
\* doubled, not the total) and returns a value between count + modifier and
\* count * sides + modifier (2 * count + modifier and
\* 2 * count * sides + modifier on a crit); the modifier is added once.
C31_DamageDrawsAndRange ==
    DamageReturned =>
        LET c == cfg.dice_spec.count
            s == cfg.dice_spec.sides
            m == cfg.modifier
            k == IF cfg.crit THEN 2 * c ELSE c
        IN  /\ call.draws = k
            /\ call.ret >= k + m
            /\ call.ret <= k * s + m
            /\ call.ret = call.arg + m

\* The same below the saturation of the doubled count: holds.
C31_Below128 ==
    (DamageReturned /\ cfg.dice_spec.count <= 127) => C31_DamageDrawsAndRange

C31_Saturated ==
    /\ DamageReturned
    /\ cfg.crit
    /\ cfg.dice_spec.count = 128
    /\ call.draws = 255


(***************************************************************************)
(* Claims about hit points in a duel, checked under SpecDuel.              *)
(***************************************************************************)
\* C32: a combatant at 0 HP is never Conscious: whatever actor_hp the duel
\* was configured with (0 and negative values included), in every
\* reachable state a Conscious actor has hp > 0.
C32_ConsciousAboveZero ==
    actor_health.state = Conscious => actor_health.hp > 0

\* A Conscious actor at hp <= 0 that has just attacked the enemy.
C32_AttacksAtZero ==
    /\ call.op = "attack"
    /\ call.who = "enemy"
    /\ actor_health.state = Conscious
    /\ actor_health.hp <= 0


(***************************************************************************)
(* Claims about the enemies' hit points, checked under SpecEncounter.      *)
(***************************************************************************)
\* C33: the HP of an attacked enemy never increases: whatever the actor,
\* the weapon dice and the damage modifier (negative damage totals from a
\* negative ability modifier included), an actor's attack leaves every
\* enemy with at most the HP it had.
C33_EnemyHpNeverRises ==
    [][pc = "enc_actor_action" =>
          \A i \in DOMAIN enemies : enemies'[i].hp <= enemies[i].hp]_vars

\* An enemy above the HP the encounter file gave it.
C33_EnemyAboveStart ==
    /\ pc = "enc_actor_end"
    /\ call.op = "attack"
    /\ \E i \in DOMAIN enemies : enemies[i].hp > cfg.enemies[i].hp


(***************************************************************************)
(* Claims about vantage_from_conditions, checked under SpecRules.          *)
(***************************************************************************)
Reorderings(s) ==
    {[i \in 1..Len(s) |-> s[f[i]]] :
        f \in {g \in [1..Len(s) -> 1..Len(s)] :
                  \A i, j \in 1..Len(s) : i # j => g[i] # g[j]}}

\* C34: vantage_from_conditions does not depend on the order of the
\* records in the target's list or in the attacker's: every permutation of
\* either list gives the Vantage the call returned, for both styles.
C34_VantageOrderFree ==
    (pc = "rules_done" /\ call.op = "vantage_from_conditions") =>
        \A a \in Reorderings(cfg.attacker_conds),
           t \in Reorderings(cfg.target_conds) :
            vantage_from_conditions(a, t, cfg.style) = call.ret


(***************************************************************************)
(* Claims about the life record under any sequence of calls, checked       *)
(* under Spec.                                                             *)
(***************************************************************************)
\* C35: in every state reachable from Health::new by apply_damage, heal,
\* stabilize and process_death_save_start_of_turn, an Unconscious
\* combatant, stable or not, has hp = 0.
C35_UnconsciousAtZero ==
    actor_health.state.tag = "Unconscious" => actor_health.hp = 0

\* C36: in every reachable state hp <= max_hp: no sequence of apply_damage
\* (with any value damage can return, negative ones included), heal and
\* death saves raises the HP above the maximum.
C36_HpAtMostMax == actor_health.hp <= actor_health.max_hp

\* A combatant created with max_hp 3 that negative damage has raised to 4.
C36_AboveMax ==
    /\ call.op = "apply_damage"
    /\ call.arg < 0
    /\ actor_health.max_hp = MaxHP
    /\ actor_health.hp = MaxHP + 1

\* C37: death saves resolve in bounded time: a death save made at 0 HP
\* while Unconscious and not stable either resolves (Dead, stable or
\* Conscious) or strictly raises successes + failures, which never exceeds
\* 4 while unresolved; so of any 5 consecutive death saves, with no heal,
\* stabilize or state-changing damage in between, one has resolved,
\* whatever the rolls.
C37_DeathSavesResolve ==
    [][(call'.op = "death_save" /\ Qualifies(actor_health)) =>
          LET h == actor_health'
              before == actor_health.death.successes
                           + actor_health.death.failures
              after == h.death.successes + h.death.failures
          IN  \/ h.state.tag \in {"Dead", "Conscious"}
              \/ (h.state.tag = "Unconscious" /\ h.state.stable)
              \/ (before < after /\ after <= 4)]_vars

\* The fifth save of a run: made with two successes and two failures on
\* the tally, it has resolved.
C37_FifthSaveResolves ==
    /\ call.op = "death_save"
    /\ call.pre.death = [successes |-> 2, failures |-> 2]
    /\ call.pre.state = Unconscious(FALSE)
    /\ actor_health.state = Unconscious(TRUE)

DamageWhileDown ==
    /\ call'.op = "apply_damage"
    /\ actor_health.state.tag = "Unconscious"
    /\ actor_health.hp = 0

\* C39: damage dealt to a combatant already Unconscious at 0 HP changes
\* nothing in its life record: apply_damage returns false, the state (the
\* stable flag included), the hp and the tally are unchanged and no
\* condition is added.
C39_DamageWhileDownIsNoop ==
    [][DamageWhileDown =>
          /\ call'.ret = FALSE
          /\ actor_health' = actor_health
          /\ actor_conditions' = actor_conditions]_vars

\* The same for damage of 0 or more: holds.
C39_NonNegativeDamage ==
    [][(DamageWhileDown /\ call'.arg >= 0) =>
          /\ call'.ret = FALSE
          /\ actor_health' = actor_health
          /\ actor_conditions' = actor_conditions]_vars

\* Dead is entered by a death save only: holds.
C39_DeadBySaveOnly ==
    [][(actor_health.state # Dead /\ actor_health'.state = Dead) =>
          call'.op = "death_save"]_vars


(***************************************************************************)
(* Claims about the result of a duel, checked under SpecDuel.              *)
(***************************************************************************)
\* C40: in a duel that starts with the actor and the target at 1 HP or
\* more, no state has both sides at HP <= 0, and "draw" is returned only
\* when the round cap was reached (rounds = 30) with both above 0 HP.
C40_DrawOnlyAtCap ==
    (cfg.actor_hp >= 1 /\ cfg.target.hp >= 1) =>
        /\ ~(actor_health.hp <= 0 /\ enemy_hp <= 0)
        /\ (pc = "done" /\ winner = "draw") =>
               /\ rounds = MAX_ROUNDS
               /\ actor_health.hp > 0
               /\ enemy_hp > 0

\* A duel between two sides that started above 0 HP, ended in a draw.
C40_DrawReturned ==
    /\ cfg.actor_hp >= 1
    /\ cfg.target.hp >= 1
    /\ pc = "done"
    /\ winner = "draw"

=============================================================================
